---- MODULE Spec2Model ----
(***************************************************************************)
(* Bronze-layer ingestion: version gate, manifest read-modify-write,       *)
(* latest/releases folder rotation and the extraction stage.               *)
(*                                                                         *)
(* Python strings are modelled as sequences of one-character strings, so   *)
(* that strip, lower, replace, split, startswith and endswith are computed *)
(* character by character as the interpreter computes them.               *)
(***************************************************************************)
EXTENDS Integers, Sequences, FiniteSets, TLC

VARIABLES
    pc,             \* position of the task in the code it runs
    remote, local,  \* arguments of the version gate
    newer,          \* result of the version gate
    store,          \* the container: blob name -> [data, copy, src]
    store0,         \* the container when the first rotation was invoked
    rotFn,          \* "latest": update_latest_folder, "ftp": update_ftp_folder_versioning
    source_id, version,
    blobs, idx,     \* the listing taken by the rotation and its loop index
    moved_count,
    runs,           \* invocations of the rotation so far
    calls,          \* storage calls issued so far by the rotation
    manifest_blob,  \* the text of manifest.json, None when the blob is missing
    exit_status,    \* exit status of the task, -1 while it runs
    manifest,       \* extract: the manifest it loaded
    all_extracted,  \* extract: destinations collected so far
    eidx,           \* extract: index into list_of_files
    handled,        \* extract: per file, the handler chosen and what it wrote
    ext_failures,   \* extract: files whose processing failed in this run
    ext_writes,     \* extract: manifest writes done by this run
    manifest_at_ext, \* the manifest text when this extract run loaded it
    script,         \* the ingestion script the task runs: "api", "web", "bioportal"
    cycle,          \* ingestion runs of the source started so far
    remote_files,   \* what the source serves in this run: <<[filename, data, ok]>>
    stored_version, \* the version extract_version read from the manifest
    hosts, list_of_files, update_ts,
    fidx,           \* index of the next file to transfer
    outcome,        \* how the run ended: "uptodate", "nofiles", "completed"
    manifest_at_start, \* the manifest text when the run started
    run_uploads,    \* objects the transfer step of this run wrote
    run_manifest_writes, \* manifest writes of this run before extraction
    marker,         \* what the version resolver yielded in this run, None for nothing
    prev_run,       \* how the previous run of the source ended
    detected_versions, \* ftp: the versions of the files seen so far
    read_outcome,   \* load_manifest on its own: what the download of the blob did
    writers,        \* per source, its read-modify-write cycle on the shared manifest
    manifest_writes, \* writes of the shared manifest so far
    overlapped,     \* two read-modify-write cycles have been in progress at once
    locals          \* the local variables of a helper function called on its own

gateVars == <<remote, local, newer>>
rotVars == <<store0, rotFn, blobs, idx, moved_count, runs, calls>>
argVars == <<source_id, version>>
extVars == <<manifest, all_extracted, eidx, handled, ext_failures, ext_writes, manifest_at_ext>>
flowVars == <<script, cycle, remote_files, stored_version, hosts, list_of_files, update_ts,
              fidx, outcome, manifest_at_start, run_uploads, run_manifest_writes>>
runVars == <<marker, prev_run, detected_versions, locals>>
sharedVars == <<read_outcome, writers, manifest_writes, overlapped>>
nonRotVars == <<gateVars, argVars, manifest_blob, exit_status, extVars, flowVars, runVars,
                sharedVars>>
vars == <<pc, gateVars, argVars, store, rotVars, manifest_blob, exit_status, extVars, flowVars,
          runVars, sharedVars>>

-----------------------------------------------------------------------------
(* Bounds of the model *)

\* longest version marker handed to the gate
MaxMarkerLen == 3

\* ingestion runs of one source
MaxCycles == 2

\* elements of the hosts and list_of_files handed to update_manifest
MaxListLen == 2

\* files in the list_of_files handed to one extraction
MaxFiles == 2

\* invocations of the rotation with the same arguments
MaxRuns == 2

\* blobs in the container when the rotation is first invoked
MaxBlobs == 3

-----------------------------------------------------------------------------
(* Python str methods *)

Whitespace == {" ", "\t", "\n", "\r", "\f"}

RECURSIVE lstrip(_)
lstrip(s) ==
    IF s = <<>> THEN s
    ELSE IF Head(s) \in Whitespace THEN lstrip(Tail(s)) ELSE s

RECURSIVE rstrip(_)
rstrip(s) ==
    IF s = <<>> THEN s
    ELSE IF s[Len(s)] \in Whitespace THEN rstrip(SubSeq(s, 1, Len(s) - 1)) ELSE s

strip(s) == rstrip(lstrip(s))

startswith(s, p) == Len(p) <= Len(s) /\ SubSeq(s, 1, Len(p)) = p

endswith(s, x) == Len(x) <= Len(s) /\ SubSeq(s, Len(s) - Len(x) + 1, Len(s)) = x

LowerChar(c) ==
    CASE c = "G" -> "g"
      [] c = "Z" -> "z"
      [] c = "I" -> "i"
      [] c = "P" -> "p"
      [] c = "A" -> "a"
      [] OTHER -> c

lower(s) == [i \in 1..Len(s) |-> LowerChar(s[i])]

\* index of the first occurrence of old in s, 0 when there is none
find(s, old) ==
    LET hits == {i \in 1..(Len(s) - Len(old) + 1) : SubSeq(s, i, i + Len(old) - 1) = old}
    IN  IF hits = {} THEN 0 ELSE CHOOSE i \in hits : \A j \in hits : i <= j

\* str.replace(old, new, count); count = -1 replaces every occurrence
RECURSIVE replace(_, _, _, _)
replace(s, old, new, count) ==
    LET i == find(s, old)
    IN  IF count = 0 \/ i = 0 THEN s
        ELSE SubSeq(s, 1, i - 1) \o new
             \o replace(SubSeq(s, i + Len(old), Len(s)), old, new, count - 1)

\* str.split(sep) for a one-character separator
RECURSIVE split(_, _)
split(s, sep) ==
    LET i == find(s, <<sep>>)
    IN  IF i = 0 THEN <<s>>
        ELSE <<SubSeq(s, 1, i - 1)>> \o split(SubSeq(s, i + 1, Len(s)), sep)

\* sep.join(parts)
RECURSIVE join(_, _)
join(parts, sep) ==
    IF parts = <<>> THEN <<>>
    ELSE IF Len(parts) = 1 THEN parts[1]
    ELSE parts[1] \o <<sep>> \o join(Tail(parts), sep)

\* s.rsplit(sep, 1)[0]
rsplit1_head(s, sep) ==
    LET hits == {i \in 1..Len(s) : s[i] = sep}
    IN  IF hits = {} THEN s
        ELSE SubSeq(s, 1, (CHOOSE i \in hits : \A j \in hits : j <= i) - 1)

-----------------------------------------------------------------------------
(* Optional[str] *)

None == [some |-> FALSE, v |-> <<>>]
Some(s) == [some |-> TRUE, v |-> s]

-----------------------------------------------------------------------------
(* Version gate *)

\* a faulty variant of the gate: a chronological comparison instead of inequality
RECURSIVE SeqLess(_, _)
SeqLess(a, b) ==
    IF b = <<>> THEN FALSE
    ELSE IF a = <<>> THEN TRUE
    ELSE IF Head(a) = Head(b) THEN SeqLess(Tail(a), Tail(b))
    ELSE \E x \in {<<" ", "1">>, <<" ", "2">>, <<"1", "2">>, <<"\t", "1">>, <<"\t", "2">>} :
            x = <<Head(a), Head(b)>>

is_newer_version_Ordered(r, l) ==
    IF ~r.some THEN FALSE
    ELSE IF ~l.some THEN TRUE
    ELSE SeqLess(strip(l.v), strip(r.v))

is_newer_version(r, l) ==
    IF ~r.some THEN FALSE
    ELSE IF ~l.some THEN TRUE
    ELSE strip(r.v) # strip(l.v)

-----------------------------------------------------------------------------
(* Python values held by the manifest, and json.dumps / json.loads *)

StrV(s) == [t |-> "str", v |-> s]
ListV(xs) == [t |-> "list", v |-> xs]
BoolV(b) == [t |-> "bool", v |-> b]
DictV(items) == [t |-> "dict", v |-> items]
NoneV == [t |-> "none", v |-> <<>>]

\* a list of str as a Python list value, and back
StrList(xs) == ListV([i \in 1..Len(xs) |-> StrV(xs[i])])
Strs(lv) == [i \in 1..Len(lv.v) |-> lv.v[i].v]

EmptyDict == DictV(<<>>)

\* d.get(k): dicts keep their items in insertion order
dict_get(d, k) ==
    LET hits == {i \in 1..Len(d.v) : d.v[i].k = k}
    IN  IF hits = {} THEN NoneV ELSE d.v[CHOOSE i \in hits : TRUE].val

\* a faulty variant of the item assignment: the mapping is started afresh
dict_set_Alone(d, k, val) == DictV(<< [k |-> k, val |-> val] >>)

\* d[k] = val: an existing key keeps its place, a new key goes last
dict_set(d, k, val) ==
    LET hits == {i \in 1..Len(d.v) : d.v[i].k = k}
    IN  IF hits = {} THEN DictV(Append(d.v, [k |-> k, val |-> val]))
        ELSE DictV([i \in 1..Len(d.v) |-> IF i \in hits THEN [k |-> k, val |-> val] ELSE d.v[i]])

dict_keys(d) == {d.v[i].k : i \in 1..Len(d.v)}

\* a faulty variant of truthiness: only None is false
truthy_NotNone(val) == val.t # "none"

\* Python truthiness of a value
truthy(val) ==
    CASE val.t = "none" -> FALSE
      [] val.t = "bool" -> val.v
      [] OTHER -> val.v # <<>>

QUOTE == "\""
BACKSLASH == "\\"

\* a faulty variant of the string encoder: characters are written as they are
escape_Raw(s) == s

\* the JSON encoder's escaping of a str
RECURSIVE escape(_)
escape(s) ==
    IF s = <<>> THEN <<>>
    ELSE (CASE Head(s) = QUOTE -> <<BACKSLASH, QUOTE>>
            [] Head(s) = BACKSLASH -> <<BACKSLASH, BACKSLASH>>
            [] Head(s) = "\n" -> <<BACKSLASH, "n">>
            [] Head(s) = "\t" -> <<BACKSLASH, "t">>
            [] OTHER -> <<Head(s)>>) \o escape(Tail(s))

\* newline and indentation written by json.dumps(..., indent=2)
newline_indent(n) == <<"\n">> \o [i \in 1..n |-> " "]

RECURSIVE dumps(_, _)
RECURSIVE dumps_items(_, _, _)
dumps_items(val, i, ind) ==
    LET item == IF val.t = "dict"
                THEN <<QUOTE>> \o escape(val.v[i].k) \o <<QUOTE, ":", " ">>
                     \o dumps(val.v[i].val, ind)
                ELSE dumps(val.v[i], ind)
    IN  newline_indent(ind) \o item
        \o (IF i < Len(val.v) THEN <<",">> \o dumps_items(val, i + 1, ind) ELSE <<>>)

\* json.dumps(val, indent=2), at nesting depth ind / 2
dumps(val, ind) ==
    CASE val.t = "str" -> <<QUOTE>> \o escape(val.v) \o <<QUOTE>>
      [] val.t = "bool" -> IF val.v THEN <<"t", "r", "u", "e">> ELSE <<"f", "a", "l", "s", "e">>
      [] val.t = "none" -> <<"n", "u", "l", "l">>
      [] val.t = "list" ->
            IF val.v = <<>> THEN <<"[", "]">>
            ELSE <<"[">> \o dumps_items(val, 1, ind + 2) \o newline_indent(ind) \o <<"]">>
      [] val.t = "dict" ->
            IF val.v = <<>> THEN <<"{", "}">>
            ELSE <<"{">> \o dumps_items(val, 1, ind + 2) \o newline_indent(ind) \o <<"}">>

ParseFail == [ok |-> FALSE, val |-> NoneV, next |-> 0]
Parsed(val, next) == [ok |-> TRUE, val |-> val, next |-> next]

RECURSIVE skip_ws(_, _)
skip_ws(txt, i) ==
    IF i <= Len(txt) /\ txt[i] \in {" ", "\n", "\t", "\r"} THEN skip_ws(txt, i + 1) ELSE i

\* the body of a JSON string, from the character after the opening quote
RECURSIVE scan_string(_, _, _)
scan_string(txt, i, acc) ==
    IF i > Len(txt) THEN ParseFail
    ELSE IF txt[i] = QUOTE THEN Parsed(StrV(acc), i + 1)
    ELSE IF txt[i] = BACKSLASH THEN
        IF i + 1 > Len(txt) THEN ParseFail
        ELSE IF txt[i + 1] \in {QUOTE, BACKSLASH, "/"}
            THEN scan_string(txt, i + 2, Append(acc, txt[i + 1]))
        ELSE IF txt[i + 1] = "n" THEN scan_string(txt, i + 2, Append(acc, "\n"))
        ELSE IF txt[i + 1] = "t" THEN scan_string(txt, i + 2, Append(acc, "\t"))
        ELSE ParseFail
    ELSE IF txt[i] \in {"\n", "\t"} THEN ParseFail
    ELSE scan_string(txt, i + 1, Append(acc, txt[i]))

literal_at(txt, i, word) == i + Len(word) - 1 <= Len(txt) /\ SubSeq(txt, i, i + Len(word) - 1) = word

RECURSIVE parse_value(_, _)
RECURSIVE parse_array(_, _, _, _)
RECURSIVE parse_object(_, _, _, _)

\* the elements of an array; i is the first non-blank position after "[" or ","
parse_array(txt, i, acc, first) ==
    IF i > Len(txt) THEN ParseFail
    ELSE IF first /\ txt[i] = "]" THEN Parsed(ListV(acc), i + 1)
    ELSE LET r == parse_value(txt, i)
             k == skip_ws(txt, r.next)
         IN  IF ~r.ok \/ k > Len(txt) THEN ParseFail
             ELSE IF txt[k] = "," THEN parse_array(txt, skip_ws(txt, k + 1), Append(acc, r.val), FALSE)
             ELSE IF txt[k] = "]" THEN Parsed(ListV(Append(acc, r.val)), k + 1)
             ELSE ParseFail

\* the members of an object; a repeated key keeps the last value
parse_object(txt, i, acc, first) ==
    IF i > Len(txt) THEN ParseFail
    ELSE IF first /\ txt[i] = "}" THEN Parsed(acc, i + 1)
    ELSE IF txt[i] # QUOTE THEN ParseFail
    ELSE LET key == scan_string(txt, i + 1, <<>>)
             c == skip_ws(txt, key.next)
         IN  IF ~key.ok \/ c > Len(txt) \/ txt[c] # ":" THEN ParseFail
             ELSE LET r == parse_value(txt, skip_ws(txt, c + 1))
                      k == skip_ws(txt, r.next)
                  IN  IF ~r.ok \/ k > Len(txt) THEN ParseFail
                      ELSE IF txt[k] = ","
                          THEN parse_object(txt, skip_ws(txt, k + 1),
                                            dict_set(acc, key.val.v, r.val), FALSE)
                      ELSE IF txt[k] = "}"
                          THEN Parsed(dict_set(acc, key.val.v, r.val), k + 1)
                      ELSE ParseFail

parse_value(txt, i) ==
    IF i > Len(txt) THEN ParseFail
    ELSE CASE txt[i] = QUOTE -> scan_string(txt, i + 1, <<>>)
           [] txt[i] = "[" -> parse_array(txt, skip_ws(txt, i + 1), <<>>, TRUE)
           [] txt[i] = "{" -> parse_object(txt, skip_ws(txt, i + 1), EmptyDict, TRUE)
           [] literal_at(txt, i, <<"t", "r", "u", "e">>) -> Parsed(BoolV(TRUE), i + 4)
           [] literal_at(txt, i, <<"f", "a", "l", "s", "e">>) -> Parsed(BoolV(FALSE), i + 5)
           [] literal_at(txt, i, <<"n", "u", "l", "l">>) -> Parsed(NoneV, i + 4)
           [] OTHER -> ParseFail

\* json.loads(txt): the whole text is one value
loads(txt) ==
    LET r == parse_value(txt, skip_ws(txt, 1))
    IN  IF r.ok /\ skip_ws(txt, r.next) = Len(txt) + 1 THEN r ELSE ParseFail

-----------------------------------------------------------------------------
(* Blob names and contents *)

SL == <<"/">>
RAW == <<"r", "a", "w">>
LATEST == <<"l", "a", "t", "e", "s", "t">>
RELEASES == <<"r", "e", "l", "e", "a", "s", "e", "s">>

\* byte order of the characters that occur in blob names
CharOrder == <<".", "/", "1", "2", "G", "I", "P", "Z", "_", "a", "b", "c", "d", "e",
               "f", "g", "h", "i", "j", "k", "l", "m", "n", "o", "p", "q", "r", "s",
               "t", "u", "v", "w", "x", "y", "z">>

Rank(c) == CHOOSE i \in 1..Len(CharOrder) : CharOrder[i] = c

RECURSIVE NameLess(_, _)
NameLess(a, b) ==
    IF b = <<>> THEN FALSE
    ELSE IF a = <<>> THEN TRUE
    ELSE IF Head(a) = Head(b) THEN NameLess(Tail(a), Tail(b))
    ELSE Rank(Head(a)) < Rank(Head(b))

RECURSIVE Sorted(_)
Sorted(S) ==
    IF S = {} THEN <<>>
    ELSE LET m == CHOOSE x \in S : \A y \in S \ {x} : NameLess(x, y)
         IN  <<m>> \o Sorted(S \ {m})

\* the content of a blob: its leading magic bytes, whether the payload can
\* be decoded, the members of an archive, and an identity for the bytes
File(id) == [magic |-> "other", valid |-> TRUE, members |-> <<>>, id |-> id]

\* what a destination holds while a copy is pending or after it failed
Incomplete == [magic |-> "other", valid |-> FALSE, members |-> <<>>, id |-> 0]

Blob(data) == [data |-> data, copy |-> "none", src |-> <<>>]

Exists(st, name) == name \in DOMAIN st

\* a faulty variant of Put: upload_blob(..., overwrite=False) semantics
Put_KeepExisting(st, name, blob) ==
    [n \in DOMAIN st \cup {name} |-> IF n \in DOMAIN st THEN st[n] ELSE blob]

Put(st, name, blob) == [n \in DOMAIN st \cup {name} |-> IF n = name THEN blob ELSE st[n]]

Delete(st, name) == [n \in DOMAIN st \ {name} |-> st[n]]

\* container.list_blobs(name_starts_with=prefix): names in lexicographic order
list_blobs(st, prefix) == Sorted({n \in DOMAIN st : startswith(n, prefix)})

-----------------------------------------------------------------------------
(* Folder rotation: update_latest_folder and update_ftp_folder_versioning *)

\* versioning.py:298  latest_prefix = f"raw/{source_id}/latest/"
ftp_latest_prefix(sid) == RAW \o SL \o sid \o SL \o LATEST \o SL

\* versioning.py:354  latest_prefix = f"raw/{source_id}/latest/{version}"
latest_prefix(sid, ver) == RAW \o SL \o sid \o SL \o LATEST \o SL \o ver

RotationPrefix(fn, sid, ver) ==
    IF fn = "latest" THEN latest_prefix(sid, ver) ELSE ftp_latest_prefix(sid)

\* a faulty variant of the keep test: the current version is moved as well
keep_current_Never(blob_version, ver) == FALSE

\* "if blob_version == version: continue"
keep_current(blob_version, ver) == blob_version = ver

\* the loop body up to the copy: does the blob get moved?
selected(name, ver) ==
    LET parts == split(name, "/")
    IN  /\ ~(Len(parts) < 5)
        /\ ~keep_current(parts[4], ver)

\* f"raw/{source_id}/releases/{blob_version}/{relative_path}"
release_blob_name(name, sid) ==
    LET parts == split(name, "/")
        relative_path == join(SubSeq(parts, 5, Len(parts)), "/")
    IN  RAW \o SL \o sid \o SL \o RELEASES \o SL \o parts[4] \o SL \o relative_path

RotIdle ==
    /\ store0 = <<>>
    /\ rotFn = "none"
    /\ blobs = <<>>
    /\ idx = 0
    /\ moved_count = 0
    /\ runs = 0
    /\ calls = {}

\* blobs = list(container.list_blobs(name_starts_with=latest_prefix))
RotList ==
    /\ pc = "rot_call"
    /\ blobs' = list_blobs(store, RotationPrefix(rotFn, source_id, version))
    /\ idx' = 1
    /\ moved_count' = 0
    /\ pc' = "rot_loop"
    /\ UNCHANGED <<store, store0, rotFn, runs, calls>>
    /\ UNCHANGED nonRotVars

\* the "continue" branches of the loop
RotContinue ==
    /\ pc = "rot_loop"
    /\ idx <= Len(blobs)
    /\ ~selected(blobs[idx], version)
    /\ idx' = idx + 1
    /\ UNCHANGED <<pc, store, store0, rotFn, blobs, moved_count, runs, calls>>
    /\ UNCHANGED nonRotVars

\* dst_blob.start_copy_from_url(src_blob.url): the service answers with the
\* copy finished or with the copy pending
RotStartCopy ==
    /\ pc = "rot_loop"
    /\ idx <= Len(blobs)
    /\ selected(blobs[idx], version)
    /\ LET name == blobs[idx]
           dst == release_blob_name(name, source_id)
       IN  IF ~Exists(store, name)
           THEN /\ pc' = "rot_error"
                /\ UNCHANGED <<store, calls>>
           ELSE /\ \E status \in {"success", "pending"} :
                      store' = Put(store, dst,
                          [data |-> IF status = "success" THEN store[name].data ELSE Incomplete,
                           copy |-> status, src |-> name])
                /\ calls' = calls \cup {[run |-> runs, op |-> "copy", src |-> name,
                                         dst |-> dst, dstCopy |-> "none"]}
                /\ pc' = "rot_copied"
    /\ UNCHANGED <<store0, rotFn, blobs, idx, moved_count, runs>>
    /\ UNCHANGED nonRotVars

\* src_blob.delete_blob(), issued without looking at the copy status
RotDeleteSrc ==
    /\ pc = "rot_copied"
    /\ LET name == blobs[idx]
           dst == release_blob_name(name, source_id)
       IN  IF ~Exists(store, name)
           THEN /\ pc' = "rot_error"
                /\ UNCHANGED <<store, calls, idx, moved_count>>
           ELSE /\ store' = Delete(store, name)
                /\ calls' = calls \cup {[run |-> runs, op |-> "delete", src |-> name,
                                         dst |-> dst, dstCopy |-> store[dst].copy]}
                /\ moved_count' = moved_count + 1
                /\ idx' = idx + 1
                /\ pc' = "rot_loop"
    /\ UNCHANGED <<store0, rotFn, blobs, runs>>
    /\ UNCHANGED nonRotVars

\* the storage service finishes a pending copy: it succeeds when the source
\* is still there and fails when the source has been deleted meanwhile
SrvCopyFinish ==
    /\ \E dst \in DOMAIN store :
          /\ store[dst].copy = "pending"
          /\ store' = [store EXCEPT ![dst] =
                IF Exists(store, store[dst].src)
                THEN [data |-> store[store[dst].src].data, copy |-> "success", src |-> store[dst].src]
                ELSE [data |-> Incomplete, copy |-> "failed", src |-> store[dst].src]]
    /\ UNCHANGED <<pc, store0, rotFn, blobs, idx, moved_count, runs, calls>>
    /\ UNCHANGED nonRotVars

\* the loop is exhausted and the function returns
RotReturn ==
    /\ pc = "rot_loop"
    /\ idx > Len(blobs)
    /\ pc' = IF script = "none" THEN "rot_returned" ELSE "ext_call"
    /\ calls' = calls \cup {[run |-> runs, op |-> "return", src |-> <<>>,
                             dst |-> <<>>, dstCopy |-> "none"]}
    /\ UNCHANGED <<store, store0, rotFn, blobs, idx, moved_count, runs>>
    /\ UNCHANGED nonRotVars

\* the task runner kills the task between two storage calls
RotKill ==
    /\ pc \in {"rot_loop", "rot_copied"}
    /\ pc' = "rot_killed"
    /\ UNCHANGED <<store, rotVars>>
    /\ UNCHANGED nonRotVars

\* the rotation is invoked again with the same arguments
RotRerun ==
    /\ pc \in {"rot_returned", "rot_killed"}
    /\ runs < MaxRuns
    /\ runs' = runs + 1
    /\ pc' = "rot_call"
    /\ UNCHANGED <<store, store0, rotFn, blobs, idx, moved_count, calls>>
    /\ UNCHANGED nonRotVars

-----------------------------------------------------------------------------
(* The manifest *)

K_version == <<"v", "e", "r", "s", "i", "o", "n">>
K_update_ts == <<"u", "p", "d", "a", "t", "e", "_", "t", "s">>
K_hosts == <<"h", "o", "s", "t", "s">>
K_list_of_files == <<"l", "i", "s", "t", "_", "o", "f", "_", "f", "i", "l", "e", "s">>
K_extracted == <<"e", "x", "t", "r", "a", "c", "t", "e", "d">>
K_extracted_list_of_files == K_extracted \o <<"_">> \o K_list_of_files

\* a faulty variant of load_manifest: a text that does not parse is not caught
load_manifest_Uncaught(mb) ==
    IF ~mb.some THEN EmptyDict
    ELSE LET r == loads(mb.v) IN IF r.ok THEN r.val ELSE NoneV

\* load_manifest: a missing blob or an unreadable text gives an empty dict
load_manifest(mb) ==
    IF ~mb.some THEN EmptyDict
    ELSE LET r == loads(mb.v) IN IF r.ok THEN r.val ELSE EmptyDict

\* the entry update_manifest stores under manifest[source_id]
manifest_entry(ver, ts, hs, files) ==
    DictV(<< [k |-> K_version, val |-> StrV(ver)],
             [k |-> K_update_ts, val |-> StrV(ts)],
             [k |-> K_hosts, val |-> StrList(hs)],
             [k |-> K_list_of_files, val |-> StrList(files)] >>)

\* a faulty variant of update_manifest: the four keys are set in the entry
\* the manifest already holds, whose other keys stay
update_manifest_Merge(mb, sid, ver, ts, hs, files) ==
    LET m == load_manifest(mb)
        old == IF dict_get(m, sid).t = "dict" THEN dict_get(m, sid) ELSE EmptyDict
        entry == dict_set(dict_set(dict_set(dict_set(old, K_version, StrV(ver)),
                     K_update_ts, StrV(ts)), K_hosts, StrList(hs)),
                     K_list_of_files, StrList(files))
    IN  dumps(dict_set(m, sid, entry), 0)

\* update_manifest: the payload uploaded over manifest.json
update_manifest(mb, sid, ver, ts, hs, files) ==
    dumps(dict_set(load_manifest(mb), sid, manifest_entry(ver, ts, hs, files)), 0)

-----------------------------------------------------------------------------
(* Extraction stage *)

EXTRACTED == <<"e", "x", "t", "r", "a", "c", "t", "e", "d">>
DOT_GZ == <<".", "g", "z">>
DOT_GZ_UPPER == <<".", "G", "Z">>
DOT_TAR_GZ == <<".", "t", "a", "r", ".", "g", "z">>
DOT_ZIP == <<".", "z", "i", "p">>

\* a faulty variant of the archive root: the extension of the archive is kept
archive_root_from_blob_path_KeepExt(blob_path) ==
    IF ~startswith(blob_path, RAW \o SL)
    THEN [ok |-> FALSE, root |-> <<>>]
    ELSE [ok |-> TRUE, root |-> replace(blob_path, RAW \o SL, EXTRACTED \o SL, 1)]

\* archive_root_from_blob_path; callers see the ValueError as ok = FALSE
archive_root_from_blob_path(blob_path) ==
    IF ~startswith(blob_path, RAW \o SL)
    THEN [ok |-> FALSE, root |-> <<>>]
    ELSE [ok |-> TRUE,
          root |-> rsplit1_head(replace(blob_path, RAW \o SL, EXTRACTED \o SL, 1), ".")]

\* ZipInfo.is_dir()
is_dir(member) == endswith(member.filename, SL)

\* the decompressed payload of a gzip blob
Gunzip(data) == File(data.id + 100)

\* the first two bytes of the blob are 0x1f 0x8b
has_gzip_magic(data) == data.magic = "gz"

\* a faulty variant of the dispatch: .tar.gz is not told apart from .gz
handler_for_NoTarCheck(file_path, st) ==
    IF endswith(lower(file_path), DOT_GZ) THEN "gzip"
    ELSE IF endswith(lower(file_path), DOT_ZIP)
        THEN IF ~Exists(st, file_path) THEN "zip_probe_failed"
             ELSE IF has_gzip_magic(st[file_path].data) THEN "gzip_misnamed" ELSE "zip"
    ELSE "copy"

\* the branch of extract's loop body taken for file_path
handler_for(file_path, st) ==
    IF endswith(lower(file_path), DOT_GZ) /\ ~endswith(lower(file_path), DOT_TAR_GZ)
        THEN "gzip"
    ELSE IF endswith(lower(file_path), DOT_ZIP)
        THEN IF ~Exists(st, file_path) THEN "zip_probe_failed"
             ELSE IF has_gzip_magic(st[file_path].data) THEN "gzip_misnamed" ELSE "zip"
    ELSE "copy"

\* stream_gzip_decompression(container, raw_path, dest_path)
stream_gzip_decompression(st, raw_path, dest_path) ==
    IF Exists(st, raw_path) /\ st[raw_path].data.magic = "gz" /\ st[raw_path].data.valid
    THEN [ok |-> TRUE, writes |-> <<[name |-> dest_path, data |-> Gunzip(st[raw_path].data)]>>]
    ELSE [ok |-> FALSE, writes |-> <<>>]

RECURSIVE zip_member_writes(_, _)
zip_member_writes(members, root) ==
    IF members = <<>> THEN <<>>
    ELSE (IF is_dir(Head(members)) THEN <<>>
          ELSE <<[name |-> root \o SL \o Head(members).filename,
                  data |-> File(Head(members).id)]>>)
         \o zip_member_writes(Tail(members), root)

\* stream_zip_extraction(container, raw_path)
stream_zip_extraction(st, raw_path) ==
    LET root == archive_root_from_blob_path(raw_path)
    IN  IF root.ok /\ Exists(st, raw_path) /\ st[raw_path].data.magic = "zip"
           /\ st[raw_path].data.valid
        THEN [ok |-> TRUE, writes |-> zip_member_writes(st[raw_path].data.members, root.root)]
        ELSE [ok |-> FALSE, writes |-> <<>>]

\* the loop body of extract for one file: the objects it uploads, in order
process_file(st, file_path) ==
    LET h == handler_for(file_path, st)
        base == replace(file_path, RAW \o SL, EXTRACTED \o SL, 1)
    IN  CASE h = "gzip" ->
                stream_gzip_decompression(st, file_path,
                    replace(replace(base, DOT_GZ, <<>>, -1), DOT_GZ_UPPER, <<>>, -1))
          [] h = "gzip_misnamed" ->
                stream_gzip_decompression(st, file_path, replace(base, DOT_ZIP, <<>>, -1))
          [] h = "zip" -> stream_zip_extraction(st, file_path)
          [] h = "copy" ->
                IF Exists(st, file_path)
                THEN [ok |-> TRUE, writes |-> <<[name |-> base, data |-> st[file_path].data]>>]
                ELSE [ok |-> FALSE, writes |-> <<>>]
          [] OTHER -> [ok |-> FALSE, writes |-> <<>>]

RECURSIVE PutAll(_, _)
PutAll(st, writes) ==
    IF writes = <<>> THEN st
    ELSE PutAll(Put(st, Head(writes).name, Blob(Head(writes).data)), Tail(writes))

Names(writes) == [i \in 1..Len(writes) |-> writes[i].name]

\* a faulty variant of the error handling: a failing file is skipped and the loop goes on
on_file_error_Skip == "ext_loop"

\* except Exception: sys.exit(1)
on_file_error == "exited"

ExtIdle ==
    /\ manifest = EmptyDict
    /\ all_extracted = <<>>
    /\ eidx = 0
    /\ handled = <<>>
    /\ ext_failures = 0
    /\ ext_writes = 0
    /\ manifest_at_ext = None

ExtEntry == dict_get(manifest, source_id)
ExtFiles == Strs(dict_get(ExtEntry, K_list_of_files))

\* manifest = load_manifest(...); entry = manifest.get(source_id);
\* return when there is no entry or no list_of_files
ExtLoad ==
    /\ pc = "ext_call"
    /\ LET m == load_manifest(manifest_blob)
           entry == dict_get(m, source_id)
       IN  /\ manifest' = m
           /\ IF ~truthy(entry) \/ ~truthy(dict_get(entry, K_list_of_files))
              THEN pc' = "ext_returned"
              ELSE pc' = "ext_loop"
    /\ manifest_at_ext' = manifest_blob
    /\ all_extracted' = <<>>
    /\ eidx' = 1
    /\ ext_failures' = 0
    /\ ext_writes' = 0
    /\ handled' = <<>>
    /\ UNCHANGED <<gateVars, argVars, store, rotVars, manifest_blob, exit_status, flowVars>>
    /\ UNCHANGED <<runVars, sharedVars>>

\* one iteration of the loop that runs to its end
ExtFile ==
    /\ pc = "ext_loop"
    /\ eidx <= Len(ExtFiles)
    /\ LET file_path == ExtFiles[eidx]
           r == process_file(store, file_path)
       IN  /\ r.ok
           /\ store' = PutAll(store, r.writes)
           /\ all_extracted' = all_extracted \o Names(r.writes)
           /\ handled' = Append(handled, [path |-> file_path,
                                          handler |-> handler_for(file_path, store),
                                          ok |-> TRUE, writes |-> r.writes,
                                          source |-> store[file_path].data])
    /\ eidx' = eidx + 1
    /\ UNCHANGED <<pc, gateVars, argVars, rotVars, manifest_blob, exit_status, manifest,
                   ext_failures, ext_writes, manifest_at_ext, flowVars>>
    /\ UNCHANGED <<runVars, sharedVars>>

\* one iteration of the loop that raises
ExtFileFails ==
    /\ pc = "ext_loop"
    /\ eidx <= Len(ExtFiles)
    /\ LET file_path == ExtFiles[eidx]
           r == process_file(store, file_path)
       IN  /\ ~r.ok
           /\ handled' = Append(handled, [path |-> file_path,
                                          handler |-> handler_for(file_path, store),
                                          ok |-> FALSE, writes |-> <<>>,
                                          source |-> Incomplete])
    /\ ext_failures' = ext_failures + 1
    /\ pc' = on_file_error
    /\ exit_status' = IF on_file_error = "exited" THEN 1 ELSE exit_status
    /\ eidx' = eidx + 1
    /\ UNCHANGED <<gateVars, argVars, store, rotVars, manifest_blob, manifest, all_extracted,
                   ext_writes, manifest_at_ext, flowVars>>
    /\ UNCHANGED <<runVars, sharedVars>>

\* entry["extracted"] = True; entry["extracted_list_of_files"] = all_extracted;
\* manifest_client.upload_blob(json.dumps(manifest, indent=2), overwrite=True)
ExtWrite ==
    /\ pc = "ext_loop"
    /\ eidx > Len(ExtFiles)
    /\ LET entry == dict_set(dict_set(ExtEntry, K_extracted, BoolV(TRUE)),
                             K_extracted_list_of_files, StrList(all_extracted))
       IN  /\ manifest' = dict_set(manifest, source_id, entry)
           /\ manifest_blob' = Some(dumps(manifest', 0))
    /\ ext_writes' = ext_writes + 1
    /\ pc' = "ext_returned"
    /\ UNCHANGED <<gateVars, argVars, store, rotVars, exit_status, all_extracted, eidx,
                   handled, ext_failures, manifest_at_ext, flowVars>>
    /\ UNCHANGED <<runVars, sharedVars>>

-----------------------------------------------------------------------------
(* What the environment may hold or serve *)

\* a zip archive with a file, a directory entry and a file in that directory
ArchiveMembers ==
    << [filename |-> <<"m">>, id |-> 11],
       [filename |-> <<"d", "/">>, id |-> 12],
       [filename |-> <<"d", "/", "n">>, id |-> 13] >>

\* payloads a raw blob may hold: a gzip stream, a truncated gzip stream, a
\* zip archive, a damaged zip archive, anything else
Payloads ==
    { [magic |-> "gz", valid |-> TRUE, members |-> <<>>, id |-> 1],
      [magic |-> "gz", valid |-> FALSE, members |-> <<>>, id |-> 2],
      [magic |-> "zip", valid |-> TRUE, members |-> ArchiveMembers, id |-> 3],
      [magic |-> "zip", valid |-> FALSE, members |-> <<>>, id |-> 4],
      File(5) }

FlowVersions == {<<"1">>, <<"1", "2">>}

\* what a source may serve in one run
FileOffers ==
    { <<>>,
      << [filename |-> <<"a">> \o DOT_GZ,
          data |-> [magic |-> "gz", valid |-> TRUE, members |-> <<>>, id |-> 1]] >>,
      << [filename |-> <<"a">> \o DOT_GZ,
          data |-> [magic |-> "gz", valid |-> FALSE, members |-> <<>>, id |-> 2]] >>,
      << [filename |-> <<"b">> \o DOT_ZIP,
          data |-> [magic |-> "zip", valid |-> TRUE, members |-> ArchiveMembers, id |-> 3]],
         [filename |-> <<"e">>, data |-> File(5)] >> }

-----------------------------------------------------------------------------
(* Ingestion flows: api.run_ingestion, web.main, bioportal.run *)

\* a faulty variant of extract_version: the entry is looked up under another key
extract_version_WrongKey(mb, sid) == None

\* extract_version: the "version" of the source's manifest entry, or None
extract_version(mb, sid) ==
    LET file_data == dict_get(load_manifest(mb), sid)
        ver == IF truthy(file_data) THEN dict_get(file_data, K_version) ELSE NoneV
    IN  IF ver.t = "str" THEN Some(ver.v) ELSE None

\* f"raw/{source_id}/latest/{version}/{filename}"
blob_name_for(sid, ver, filename) ==
    RAW \o SL \o sid \o SL \o LATEST \o SL \o ver \o SL \o filename

\* no run of the source has ended yet
NoRun == [version |-> <<>>, exit_status |-> -1, list_of_files |-> <<>>, uploads |-> 0,
          manifest_writes |-> 0, listing |-> <<>>]

\* no helper function is called on its own
NoLocals == [fn |-> "none"]

RunIdle ==
    /\ marker = None
    /\ prev_run = NoRun
    /\ detected_versions = {}
    /\ locals = NoLocals

SharedIdle ==
    /\ read_outcome = "ok"
    /\ writers = <<>>
    /\ manifest_writes = 0
    /\ overlapped = FALSE

FlowIdle ==
    /\ script = "none"
    /\ cycle = 0
    /\ remote_files = <<>>
    /\ stored_version = None
    /\ hosts = <<>>
    /\ list_of_files = <<>>
    /\ update_ts = <<>>
    /\ fidx = 0
    /\ outcome = "none"
    /\ manifest_at_start = None
    /\ run_uploads = 0
    /\ run_manifest_writes = 0

\* the task runner starts the script for the source in a new process: what
\* the process before it held in memory is gone
RunStart ==
    /\ pc \in {"idle", "exited", "rot_killed", "killed"}
    /\ cycle < MaxCycles
    /\ cycle' = cycle + 1
    /\ pc' = "resolve"
    /\ exit_status' = -1
    /\ outcome' = "running"
    /\ newer' = FALSE
    /\ stored_version' = None
    /\ hosts' = <<>>
    /\ list_of_files' = <<>>
    /\ fidx' = 0
    /\ run_uploads' = 0
    /\ run_manifest_writes' = 0
    /\ manifest_at_start' = manifest_blob
    /\ remote_files' = <<>>
    /\ marker' = None
    /\ detected_versions' = {}
    /\ prev_run' = [version |-> version, exit_status |-> exit_status,
                    list_of_files |-> list_of_files, uploads |-> run_uploads,
                    manifest_writes |-> run_manifest_writes,
                    listing |-> IF script = "ftp" THEN remote_files ELSE <<>>]
    /\ version' = <<>>
    /\ store0' = <<>> /\ rotFn' = "none" /\ blobs' = <<>> /\ idx' = 0
    /\ moved_count' = 0 /\ runs' = 0 /\ calls' = {}
    /\ manifest' = EmptyDict /\ all_extracted' = <<>> /\ eidx' = 0 /\ handled' = <<>>
    /\ ext_failures' = 0 /\ ext_writes' = 0 /\ manifest_at_ext' = None
    /\ UNCHANGED <<remote, local, source_id, store, manifest_blob, script, update_ts,
                   sharedVars, locals>>

\* api.run_probe: "return None" on every path
run_probe == None

\* what the version resolver of the script may yield: a marker, or nothing
\* (run_probe returns None; the page parser or fetch_bioportal_metadata raises)
ResolverYields ==
    IF script = "api" THEN {run_probe} ELSE {None} \cup {Some(v) : v \in FlowVersions}

\* the resolver runs. api: "if version: ... else: version = datetime.now(...)";
\* web, bioportal: the exception of the resolver ends the script
FlowResolve ==
    /\ pc = "resolve"
    /\ marker' \in ResolverYields
    /\ IF marker'.some
       THEN /\ version' = marker'.v
            /\ pc' = "gate"
            /\ UNCHANGED exit_status
       ELSE IF script = "api"
       THEN /\ version' \in FlowVersions
            /\ pc' = "gate"
            /\ UNCHANGED exit_status
       ELSE /\ pc' = "exited"
            /\ exit_status' = 1
            /\ UNCHANGED version
    /\ remote_files' \in {o \in FileOffers : script = "bioportal" => Len(o) = 1}
    /\ UNCHANGED <<gateVars, source_id, store, rotVars, manifest_blob, extVars,
                   script, cycle, stored_version, hosts, list_of_files, update_ts, fidx,
                   outcome, manifest_at_start, run_uploads, run_manifest_writes>>
    /\ UNCHANGED <<prev_run, detected_versions, locals, sharedVars>>

\* stored_version = extract_version(...); if not is_newer_version(...): exit 0
FlowGate ==
    /\ pc = "gate"
    /\ stored_version' = extract_version(manifest_blob, source_id)
    /\ newer' = is_newer_version(Some(version), stored_version')
    /\ IF newer'
       THEN /\ pc' = "transfer"
            /\ fidx' = 1
            /\ UNCHANGED <<exit_status, outcome>>
       ELSE /\ pc' = "exited"
            /\ exit_status' = 0
            /\ outcome' = "uptodate"
            /\ UNCHANGED fidx
    /\ UNCHANGED <<remote, local, argVars, store, rotVars, manifest_blob, extVars, script,
                   cycle, remote_files, hosts, list_of_files, update_ts, manifest_at_start,
                   run_uploads, run_manifest_writes>>
    /\ UNCHANGED <<runVars, sharedVars>>

\* one file is streamed into raw/{source_id}/latest/{version}/{filename}
FlowTransfer ==
    /\ pc = "transfer"
    /\ fidx <= Len(remote_files)
    /\ LET f == remote_files[fidx]
           blob_name == blob_name_for(source_id, version, f.filename)
       IN  /\ store' = Put(store, blob_name, Blob(f.data))
           /\ list_of_files' = Append(list_of_files, blob_name)
           /\ hosts' = IF script = "api" THEN Append(hosts, <<"u", "/">> \o f.filename)
                       ELSE hosts
    /\ fidx' = fidx + 1
    /\ run_uploads' = run_uploads + 1
    /\ UNCHANGED <<pc, gateVars, argVars, rotVars, manifest_blob, exit_status, extVars, script,
                   cycle, remote_files, stored_version, update_ts, outcome, manifest_at_start,
                   run_manifest_writes>>
    /\ UNCHANGED <<runVars, sharedVars>>

\* a faulty variant of the failed transfer: the error of the response is
\* logged and the loop goes on with the next file
FlowTransferFails_Swallowed ==
    /\ pc = "transfer"
    /\ fidx <= Len(remote_files)
    /\ outcome' = "http_error"
    /\ fidx' = fidx + 1
    /\ UNCHANGED <<pc, gateVars, argVars, store, rotVars, manifest_blob, extVars, script, cycle,
                   remote_files, stored_version, hosts, list_of_files, update_ts, exit_status,
                   manifest_at_start, run_uploads, run_manifest_writes>>
    /\ UNCHANGED <<runVars, sharedVars>>

\* r.raise_for_status() raises on a response that is not 2xx, before
\* upload_blob is called: the script dies with the exception
FlowTransferFails ==
    /\ pc = "transfer"
    /\ fidx <= Len(remote_files)
    /\ pc' = "exited"
    /\ exit_status' = 1
    /\ outcome' = "http_error"
    /\ UNCHANGED <<gateVars, argVars, store, rotVars, manifest_blob, extVars, script, cycle,
                   remote_files, stored_version, hosts, list_of_files, update_ts, fidx,
                   manifest_at_start, run_uploads, run_manifest_writes>>
    /\ UNCHANGED <<runVars, sharedVars>>

\* the stream or the upload fails after the response was accepted: the
\* exception leaves upload_blob and the script; the destination may hold
\* a part of the object
FlowTransferBreaks ==
    /\ pc = "transfer"
    /\ fidx <= Len(remote_files)
    /\ \/ UNCHANGED store
       \/ store' = Put(store, blob_name_for(source_id, version, remote_files[fidx].filename),
                       Blob(Incomplete))
    /\ pc' = "exited"
    /\ exit_status' = 1
    /\ outcome' = "transfer_error"
    /\ UNCHANGED <<gateVars, argVars, rotVars, manifest_blob, extVars, script, cycle,
                   remote_files, stored_version, hosts, list_of_files, update_ts, fidx,
                   manifest_at_start, run_uploads, run_manifest_writes>>
    /\ UNCHANGED <<runVars, sharedVars>>

\* the task runner kills the task during the transfer step; the upload in
\* flight may leave a partial object at its destination
FlowKilled ==
    /\ pc = "transfer"
    /\ fidx <= Len(remote_files)
    /\ \/ UNCHANGED store
       \/ store' = Put(store, blob_name_for(source_id, version, remote_files[fidx].filename),
                       Blob(Incomplete))
    /\ pc' = "killed"
    /\ UNCHANGED <<gateVars, argVars, rotVars, manifest_blob, exit_status, extVars, script,
                   cycle, remote_files, stored_version, hosts, list_of_files, update_ts, fidx,
                   outcome, manifest_at_start, run_uploads, run_manifest_writes>>
    /\ UNCHANGED <<runVars, sharedVars>>

\* a faulty variant of FlowNoFiles: the version is recorded although no
\* file was downloaded
FlowNoFiles_RecordsVersion ==
    /\ pc = "transfer"
    /\ fidx > Len(remote_files)
    /\ script = "web"
    /\ list_of_files = <<>>
    /\ manifest_blob' = Some(update_manifest(manifest_blob, source_id, version, update_ts,
                                             hosts, list_of_files))
    /\ run_manifest_writes' = run_manifest_writes + 1
    /\ pc' = "exited"
    /\ exit_status' = 0
    /\ outcome' = "nofiles"
    /\ UNCHANGED <<gateVars, argVars, store, rotVars, extVars, script, cycle,
                   remote_files, stored_version, hosts, list_of_files, update_ts, fidx,
                   manifest_at_start, run_uploads>>
    /\ UNCHANGED <<runVars, sharedVars>>

\* web.main: "if not all_files: ... return"
FlowNoFiles ==
    /\ pc = "transfer"
    /\ fidx > Len(remote_files)
    /\ script = "web"
    /\ list_of_files = <<>>
    /\ pc' = "exited"
    /\ exit_status' = 0
    /\ outcome' = "nofiles"
    /\ UNCHANGED <<gateVars, argVars, store, rotVars, manifest_blob, extVars, script, cycle,
                   remote_files, stored_version, hosts, list_of_files, update_ts, fidx,
                   manifest_at_start, run_uploads, run_manifest_writes>>
    /\ UNCHANGED <<runVars, sharedVars>>

\* the hosts argument each script hands to update_manifest
hosts_argument ==
    CASE script = "api" -> hosts
      [] script = "web" -> << <<"w">> >>
      [] OTHER -> << <<"b">> >>

\* update_manifest(...), after which update_latest_folder is called
FlowUpdateManifest ==
    /\ pc = "transfer"
    /\ fidx > Len(remote_files)
    /\ ~(script = "web" /\ list_of_files = <<>>)
    /\ hosts' = hosts_argument
    /\ manifest_blob' = Some(update_manifest(manifest_blob, source_id, version, update_ts,
                                             hosts', list_of_files))
    /\ run_manifest_writes' = run_manifest_writes + 1
    /\ pc' = "rot_call"
    /\ rotFn' = "latest"
    /\ store0' = store
    /\ runs' = 1
    /\ calls' = {}
    /\ UNCHANGED <<gateVars, argVars, store, blobs, idx, moved_count, exit_status, extVars,
                   script, cycle, remote_files, stored_version, list_of_files, update_ts, fidx,
                   outcome, manifest_at_start, run_uploads>>
    /\ UNCHANGED <<runVars, sharedVars>>

\* extract returned: the script ends
FlowDone ==
    /\ pc = "ext_returned"
    /\ script # "none"
    /\ pc' = "exited"
    /\ exit_status' = 0
    /\ outcome' = "completed"
    /\ UNCHANGED <<gateVars, argVars, store, rotVars, manifest_blob, extVars, script, cycle,
                   remote_files, stored_version, hosts, list_of_files, update_ts, fidx,
                   manifest_at_start, run_uploads, run_manifest_writes>>
    /\ UNCHANGED <<runVars, sharedVars>>

\* update_manifest as called on its own
UpdateManifestCall ==
    /\ pc = "um_call"
    /\ manifest_blob' = Some(update_manifest(manifest_blob, source_id, version, update_ts,
                                             hosts, list_of_files))
    /\ pc' = "um_returned"
    /\ UNCHANGED <<gateVars, argVars, store, rotVars, exit_status, extVars, flowVars>>
    /\ UNCHANGED <<runVars, sharedVars>>

\* load_manifest as called on its own
LoadManifestCall ==
    /\ pc = "um_returned"
    /\ manifest' = load_manifest(manifest_blob)
    /\ pc' = "um_loaded"
    /\ UNCHANGED <<gateVars, argVars, store, rotVars, manifest_blob, exit_status,
                   all_extracted, eidx, handled, ext_failures, ext_writes, manifest_at_ext,
                   flowVars>>
    /\ UNCHANGED <<runVars, sharedVars>>

-----------------------------------------------------------------------------
(* Several sources working on the one manifest.json *)

Sources == {<<"a">>, <<"b">>}

\* what blob_client.download_blob().readall() may do: return the text, raise,
\* or return a text that is cut short
ReadOutcomes == {"ok", "error", "corrupt"}

cut_short(text) == SubSeq(text, 1, Len(text) \div 2)

\* load_manifest with the outcome of the download: "except Exception"
\* turns a failed download, like an unparseable text, into {}
load_manifest_read(mb, read) ==
    CASE read = "error" -> EmptyDict
      [] read = "corrupt" /\ mb.some -> load_manifest(Some(cut_short(mb.v)))
      [] OTHER -> load_manifest(mb)

Digits == <<"1", "2", "3", "4", "5">>

\* the entry a source writes in its n-th update_manifest
entry_of_cycle(sid, n) ==
    manifest_entry(<<Digits[n]>>, <<"t", "s">>, << <<"h">> >>,
                   << blob_name_for(sid, <<Digits[n]>>, <<"f">>) >>)

\* the entry extract stores once its loop has copied every file
extracted_entry(entry) ==
    LET files == Strs(dict_get(entry, K_list_of_files))
        dests == [i \in 1..Len(files) |-> replace(files[i], RAW \o SL, EXTRACTED \o SL, 1)]
    IN  dict_set(dict_set(entry, K_extracted, BoolV(TRUE)),
                 K_extracted_list_of_files, StrList(dests))

IdleWriter == [pc |-> "idle", op |-> "none", doc |-> EmptyDict, written |-> EmptyDict,
               read_at |-> 0, wrote_at |-> 0, n |-> 0]

\* update_manifest / extract of source s: manifest = load_manifest(...)
WriterLoad(s) ==
    /\ pc = "shared"
    /\ writers[s].pc # "loaded"
    /\ writers[s].n < MaxCycles
    /\ \E op \in {"update", "extract"}, read \in ReadOutcomes :
          writers' = [writers EXCEPT ![s] =
                         [pc |-> "loaded", op |-> op,
                          doc |-> load_manifest_read(manifest_blob, read),
                          written |-> EmptyDict,
                          read_at |-> manifest_writes, wrote_at |-> 0,
                          n |-> writers[s].n + 1]]
    /\ overlapped' = (overlapped \/ \E o \in Sources \ {s} : writers[o].pc = "loaded")
    /\ UNCHANGED <<pc, gateVars, argVars, store, rotVars, manifest_blob, exit_status, extVars,
                   flowVars, runVars, read_outcome, manifest_writes>>

\* update_manifest of source s: manifest[source_id] = {...}; upload_blob
WriterUpdate(s) ==
    /\ pc = "shared"
    /\ writers[s].pc = "loaded"
    /\ writers[s].op = "update"
    /\ LET doc == dict_set(writers[s].doc, s, entry_of_cycle(s, writers[s].n))
       IN  /\ manifest_blob' = Some(dumps(doc, 0))
           /\ writers' = [writers EXCEPT ![s].pc = "written", ![s].written = doc,
                                         ![s].wrote_at = manifest_writes + 1]
    /\ manifest_writes' = manifest_writes + 1
    /\ UNCHANGED <<pc, gateVars, argVars, store, rotVars, exit_status, extVars, flowVars,
                   runVars, read_outcome, overlapped>>

\* extract of source s: no entry or no list_of_files, it returns
WriterExtractReturns(s) ==
    /\ pc = "shared"
    /\ writers[s].pc = "loaded"
    /\ writers[s].op = "extract"
    /\ LET entry == dict_get(writers[s].doc, s)
       IN  ~truthy(entry) \/ ~truthy(dict_get(entry, K_list_of_files))
    /\ writers' = [writers EXCEPT ![s].pc = "returned"]
    /\ UNCHANGED <<pc, gateVars, argVars, store, rotVars, manifest_blob, exit_status, extVars,
                   flowVars, runVars, read_outcome, manifest_writes, overlapped>>

\* extract of source s: a file fails, sys.exit(1)
WriterExtractFails(s) ==
    /\ pc = "shared"
    /\ writers[s].pc = "loaded"
    /\ writers[s].op = "extract"
    /\ LET entry == dict_get(writers[s].doc, s)
       IN  truthy(entry) /\ truthy(dict_get(entry, K_list_of_files))
    /\ writers' = [writers EXCEPT ![s].pc = "failed"]
    /\ UNCHANGED <<pc, gateVars, argVars, store, rotVars, manifest_blob, exit_status, extVars,
                   flowVars, runVars, read_outcome, manifest_writes, overlapped>>

\* extract of source s: the loop ended, the entry is flagged and the
\* manifest it loaded is uploaded
WriterExtractWrite(s) ==
    /\ pc = "shared"
    /\ writers[s].pc = "loaded"
    /\ writers[s].op = "extract"
    /\ LET entry == dict_get(writers[s].doc, s)
           doc == dict_set(writers[s].doc, s, extracted_entry(entry))
       IN  /\ truthy(entry) /\ truthy(dict_get(entry, K_list_of_files))
           /\ manifest_blob' = Some(dumps(doc, 0))
           /\ writers' = [writers EXCEPT ![s].pc = "written", ![s].written = doc,
                                         ![s].wrote_at = manifest_writes + 1]
    /\ manifest_writes' = manifest_writes + 1
    /\ UNCHANGED <<pc, gateVars, argVars, store, rotVars, exit_status, extVars, flowVars,
                   runVars, read_outcome, overlapped>>

\* load_manifest called on a manifest.json of any content, with a download
\* that may fail
LoadManifestAlone ==
    /\ pc = "lm_call"
    /\ manifest' = load_manifest_read(manifest_blob, read_outcome)
    /\ pc' = "lm_returned"
    /\ UNCHANGED <<gateVars, argVars, store, rotVars, manifest_blob, exit_status,
                   all_extracted, eidx, handled, ext_failures, ext_writes, manifest_at_ext,
                   flowVars, runVars, sharedVars>>

-----------------------------------------------------------------------------
(* Specifications *)

MarkerChars == {" ", "1", "2"}

RECURSIVE StringsUpTo(_, _)
StringsUpTo(chars, n) ==
    IF n = 0 THEN {<<>>}
    ELSE LET shorter == StringsUpTo(chars, n - 1)
         IN  shorter \cup {Append(s, c) : s \in shorter, c \in chars}

Markers == {None} \cup {Some(s) : s \in StringsUpTo(MarkerChars, MaxMarkerLen)}

GateInit ==
    /\ RunIdle
    /\ SharedIdle
    /\ remote \in Markers
    /\ local \in Markers
    /\ newer = FALSE
    /\ pc = "gate_call"
    /\ source_id = <<>> /\ version = <<>>
    /\ store = <<>>
    /\ RotIdle
    /\ manifest_blob = None
    /\ exit_status = -1
    /\ ExtIdle
    /\ FlowIdle

GateCall ==
    /\ pc = "gate_call"
    /\ newer' = is_newer_version(remote, local)
    /\ pc' = "gate_returned"
    /\ UNCHANGED <<remote, local, argVars, store, rotVars, manifest_blob, exit_status, extVars,
                   flowVars>>
    /\ UNCHANGED <<runVars, sharedVars>>

GateNext == GateCall

SpecGate == GateInit /\ [][GateNext]_vars

\* names the container may hold when a rotation starts: three version
\* folders under latest/ ("1", "12" with "1" as a proper prefix, "2"), a
\* nested relative path, a blob directly under latest/ and an archived blob
RotNames ==
    << RAW \o SL \o <<"s">> \o SL \o LATEST \o SL \o <<"1">> \o SL \o <<"a">>,
       RAW \o SL \o <<"s">> \o SL \o LATEST \o SL \o <<"1", "2">> \o SL \o <<"b">>,
       RAW \o SL \o <<"s">> \o SL \o LATEST \o SL \o <<"2">> \o SL \o <<"b">>,
       RAW \o SL \o <<"s">> \o SL \o LATEST \o SL \o <<"2">> \o SL \o <<"d">> \o SL \o <<"c">>,
       RAW \o SL \o <<"s">> \o SL \o LATEST \o SL \o <<"1", "2">>,
       RAW \o SL \o <<"s">> \o SL \o RELEASES \o SL \o <<"2">> \o SL \o <<"b">> >>

RotStores ==
    {[n \in {RotNames[i] : i \in I} |->
         Blob(File(CHOOSE i \in I : RotNames[i] = n))] :
       I \in {J \in SUBSET (1..Len(RotNames)) : Cardinality(J) <= MaxBlobs}}

RotInit ==
    /\ RunIdle
    /\ SharedIdle
    /\ pc = "rot_call"
    /\ remote = None /\ local = None /\ newer = FALSE
    /\ store \in RotStores
    /\ store0 = store
    /\ rotFn \in {"latest", "ftp"}
    /\ source_id = <<"s">>
    /\ version \in {<<"1">>, <<"2">>}
    /\ blobs = <<>>
    /\ idx = 0
    /\ moved_count = 0
    /\ runs = 1
    /\ calls = {}
    /\ manifest_blob = None
    /\ exit_status = -1
    /\ ExtIdle
    /\ FlowIdle

RotNext ==
    \/ RotList
    \/ RotContinue
    \/ RotStartCopy
    \/ RotDeleteSrc
    \/ SrvCopyFinish
    \/ RotReturn
    \/ RotKill
    \/ RotRerun

SpecRotate == RotInit /\ [][RotNext]_vars

\* raw/s/latest/1/{file}
RawPath(file) == RAW \o SL \o <<"s">> \o SL \o LATEST \o SL \o <<"1">> \o SL \o file

ExtNames ==
    { RawPath(<<"a">> \o DOT_GZ), RawPath(<<"b">> \o DOT_ZIP), RawPath(<<"c">> \o DOT_TAR_GZ),
      RawPath(<<"d">> \o DOT_GZ_UPPER), RawPath(<<"e">>), RawPath(<<"f", ".", "Z", "I", "P">>) }

RECURSIVE DistinctSeqs(_, _)
DistinctSeqs(S, n) ==
    IF n = 0 THEN {<<>>}
    ELSE LET shorter == DistinctSeqs(S, n - 1)
         IN  shorter \cup {Append(q, x) : q \in {r \in shorter : Len(r) = n - 1}, x \in S}

Range(q) == {q[i] : i \in 1..Len(q)}

NoRepeat(q) == Cardinality(Range(q)) = Len(q)

OtherSource == <<"t">>
OtherEntry == manifest_entry(<<"9">>, <<"t", "s">>, <<>>, << <<"r", "a", "w", "/", "t">> >>)

\* manifest.json as an earlier ingestion left it: an entry for another
\* source, then the entry of this source with its list_of_files
ManifestWith(files) ==
    Some(dumps(dict_set(dict_set(EmptyDict, OtherSource, OtherEntry), <<"s">>,
               manifest_entry(<<"1">>, <<"t", "s">>, << <<"h">> >>, files)), 0))

\* manifest.json whose entry of this source has no list_of_files
ManifestWithoutList ==
    Some(dumps(dict_set(EmptyDict, <<"s">>,
                        DictV(<< [k |-> K_version, val |-> StrV(<<"1">>)] >>)), 0))

ExtInit ==
    /\ RunIdle
    /\ SharedIdle
    /\ pc = "ext_call"
    /\ remote = None /\ local = None /\ newer = FALSE
    /\ source_id = <<"s">> /\ version = <<"1">>
    /\ RotIdle
    /\ exit_status = -1
    /\ ExtIdle
    /\ FlowIdle
    /\ \E files \in {q \in DistinctSeqs(ExtNames, MaxFiles) : NoRepeat(q)} :
          /\ manifest_blob \in
                {ManifestWith(files), None,
                 Some(dumps(dict_set(EmptyDict, OtherSource, OtherEntry), 0)),
                 ManifestWithoutList}
          /\ \E present \in SUBSET Range(files) :
                store \in [present -> {Blob(d) : d \in Payloads}]

ExtNext ==
    \/ ExtLoad
    \/ ExtFile
    \/ ExtFileFails
    \/ ExtWrite

SpecExtract == ExtInit /\ [][ExtNext]_vars

\* the file an ingestion of version "1" left in the container
EarlierFile == blob_name_for(<<"s">>, <<"1">>, <<"e">>)

FlowInit ==
    /\ RunIdle
    /\ SharedIdle
    /\ pc = "idle"
    /\ remote = None /\ local = None /\ newer = FALSE
    /\ source_id = <<"s">> /\ version = <<>>
    /\ manifest_blob \in {None, Some(dumps(dict_set(EmptyDict, OtherSource, OtherEntry), 0)),
                          ManifestWith(<<EarlierFile>>)}
    /\ store = IF manifest_blob = ManifestWith(<<EarlierFile>>)
               THEN Put(<<>>, EarlierFile, Blob(File(7)))
               ELSE <<>>
    /\ RotIdle
    /\ exit_status = -1
    /\ ExtIdle
    /\ script \in {"api", "web", "bioportal"}
    /\ cycle = 0
    /\ remote_files = <<>>
    /\ stored_version = None
    /\ hosts = <<>>
    /\ list_of_files = <<>>
    /\ update_ts = <<"t", "s">>
    /\ fidx = 0
    /\ outcome = "none"
    /\ manifest_at_start = None
    /\ run_uploads = 0
    /\ run_manifest_writes = 0

FlowNext ==
    \/ RunStart
    \/ FlowResolve
    \/ FlowGate
    \/ FlowTransfer
    \/ FlowTransferFails
    \/ FlowTransferBreaks
    \/ FlowKilled
    \/ FlowNoFiles
    \/ FlowUpdateManifest
    \/ RotList
    \/ RotContinue
    \/ RotStartCopy
    \/ RotDeleteSrc
    \/ SrvCopyFinish
    \/ RotReturn
    \/ RotKill
    \/ ExtLoad
    \/ ExtFile
    \/ ExtFileFails
    \/ ExtWrite
    \/ FlowDone

Spec == FlowInit /\ [][FlowNext]_vars

-----------------------------------------------------------------------------
(* FTP ingestion: ftp.run_ftp_source *)

\* what the FTP host lists: up to two matching files, each with the date of
\* its MDTM answer, or None when MDTM fails
FtpListings ==
    LET dates == {None} \cup {Some(v) : v \in FlowVersions}
        first(d) == [filename |-> <<"a">> \o DOT_GZ,
                     data |-> [magic |-> "gz", valid |-> TRUE, members |-> <<>>, id |-> 1],
                     mdtm |-> d]
        broken(d) == [filename |-> <<"a">> \o DOT_GZ,
                      data |-> [magic |-> "gz", valid |-> FALSE, members |-> <<>>, id |-> 2],
                      mdtm |-> d]
        second(d) == [filename |-> <<"e">>, data |-> File(5), mdtm |-> d]
    IN  {<<>>} \cup {<<first(d)>> : d \in dates}
               \cup {<<broken(d)>> : d \in dates}
               \cup {<<first(d), second(e)>> : d \in dates, e \in dates}

\* a faulty variant of get_ftp_last_modified: a made-up date when MDTM fails
get_ftp_last_modified_MadeUp(f) == IF f.mdtm.some THEN f.mdtm ELSE Some(<<"1">>)

\* get_ftp_last_modified: the date of the MDTM answer; None on any exception
get_ftp_last_modified(f) == f.mdtm

\* filenames = list_ftp_files(host, path); matching_files = [...]
FtpList ==
    /\ pc = "resolve"
    /\ script = "ftp"
    /\ remote_files' \in FtpListings
    /\ fidx' = 1
    /\ pc' = "ftp_file"
    /\ UNCHANGED <<gateVars, argVars, store, rotVars, manifest_blob, exit_status, extVars,
                   script, cycle, stored_version, hosts, list_of_files, update_ts, outcome,
                   manifest_at_start, run_uploads, run_manifest_writes>>
    /\ UNCHANGED <<runVars, sharedVars>>

\* last_modified_ts = get_ftp_last_modified(...); the file is skipped when
\* there is none, else version = its date and detected_versions.add(version)
FtpMdtm ==
    /\ pc = "ftp_file"
    /\ fidx <= Len(remote_files)
    /\ LET last_modified_ts == get_ftp_last_modified(remote_files[fidx])
       IN  IF ~last_modified_ts.some
           THEN /\ fidx' = fidx + 1
                /\ UNCHANGED <<pc, version, detected_versions, marker>>
           ELSE /\ version' = last_modified_ts.v
                /\ marker' = last_modified_ts
                /\ detected_versions' = detected_versions \cup {version'}
                /\ pc' = "ftp_gate"
                /\ UNCHANGED fidx
    /\ UNCHANGED <<gateVars, source_id, store, rotVars, manifest_blob, exit_status, extVars,
                   script, cycle, remote_files, stored_version, hosts, list_of_files,
                   update_ts, outcome, manifest_at_start, run_uploads, run_manifest_writes>>
    /\ UNCHANGED <<prev_run, locals, sharedVars>>

\* stored_ts = extract_version(...); "if not is_newer_version(version,
\* stored_ts): ... sys.exit(0)", inside the loop over the files
FtpGate ==
    /\ pc = "ftp_gate"
    /\ stored_version' = extract_version(manifest_blob, source_id)
    /\ newer' = is_newer_version(Some(version), stored_version')
    /\ IF newer'
       THEN /\ pc' = "ftp_transfer"
            /\ UNCHANGED <<exit_status, outcome>>
       ELSE /\ pc' = "exited"
            /\ exit_status' = 0
            /\ outcome' = "uptodate"
    /\ UNCHANGED <<remote, local, argVars, store, rotVars, manifest_blob, extVars, script,
                   cycle, remote_files, hosts, list_of_files, update_ts, fidx,
                   manifest_at_start, run_uploads, run_manifest_writes>>
    /\ UNCHANGED <<runVars, sharedVars>>

\* ftp_stream_to_blob(..., blob_path=blob_name); all_blob_paths.append(blob_name)
FtpTransfer ==
    /\ pc = "ftp_transfer"
    /\ LET f == remote_files[fidx]
           blob_name == blob_name_for(source_id, version, f.filename)
       IN  /\ store' = Put(Delete(store, blob_name), blob_name, Blob(f.data))
           /\ list_of_files' = Append(list_of_files, blob_name)
    /\ fidx' = fidx + 1
    /\ run_uploads' = run_uploads + 1
    /\ pc' = "ftp_file"
    /\ UNCHANGED <<gateVars, argVars, rotVars, manifest_blob, exit_status, extVars, script,
                   cycle, remote_files, stored_version, hosts, update_ts, outcome,
                   manifest_at_start, run_manifest_writes>>
    /\ UNCHANGED <<runVars, sharedVars>>

\* ftp_stream_to_blob raises after it deleted the existing blob
FtpTransferFails ==
    /\ pc = "ftp_transfer"
    /\ store' = Delete(store, blob_name_for(source_id, version, remote_files[fidx].filename))
    /\ pc' = "exited"
    /\ exit_status' = 1
    /\ UNCHANGED <<gateVars, argVars, rotVars, manifest_blob, extVars, script, cycle,
                   remote_files, stored_version, hosts, list_of_files, update_ts, fidx,
                   outcome, manifest_at_start, run_uploads, run_manifest_writes>>
    /\ UNCHANGED <<runVars, sharedVars>>

\* "if not detected_versions: ... return"
FtpNoVersions ==
    /\ pc = "ftp_file"
    /\ fidx > Len(remote_files)
    /\ detected_versions = {}
    /\ pc' = "exited"
    /\ exit_status' = 0
    /\ outcome' = "nofiles"
    /\ UNCHANGED <<gateVars, argVars, store, rotVars, manifest_blob, extVars, script, cycle,
                   remote_files, stored_version, hosts, list_of_files, update_ts, fidx,
                   manifest_at_start, run_uploads, run_manifest_writes>>
    /\ UNCHANGED <<runVars, sharedVars>>

\* version = sorted(detected_versions)[-1]; update_manifest(...), after
\* which update_latest_folder is called
FtpUpdateManifest ==
    /\ pc = "ftp_file"
    /\ fidx > Len(remote_files)
    /\ detected_versions # {}
    /\ version' = Sorted(detected_versions)[Cardinality(detected_versions)]
    /\ hosts' = << <<"f">> >>
    /\ manifest_blob' = Some(update_manifest(manifest_blob, source_id, version', update_ts,
                                             hosts', list_of_files))
    /\ run_manifest_writes' = run_manifest_writes + 1
    /\ pc' = "rot_call"
    /\ rotFn' = "latest"
    /\ store0' = store
    /\ runs' = 1
    /\ calls' = {}
    /\ UNCHANGED <<gateVars, source_id, store, blobs, idx, moved_count, exit_status, extVars,
                   script, cycle, remote_files, stored_version, list_of_files, update_ts, fidx,
                   outcome, manifest_at_start, run_uploads>>
    /\ UNCHANGED <<runVars, sharedVars>>

FtpInit ==
    /\ RunIdle
    /\ SharedIdle
    /\ pc = "idle"
    /\ remote = None /\ local = None /\ newer = FALSE
    /\ source_id = <<"s">> /\ version = <<>>
    /\ manifest_blob \in {None, Some(dumps(dict_set(EmptyDict, OtherSource, OtherEntry), 0)),
                          ManifestWith(<<EarlierFile>>)}
    /\ store = IF manifest_blob = ManifestWith(<<EarlierFile>>)
               THEN Put(<<>>, EarlierFile, Blob(File(7)))
               ELSE <<>>
    /\ RotIdle
    /\ exit_status = -1
    /\ ExtIdle
    /\ script = "ftp"
    /\ cycle = 0
    /\ remote_files = <<>>
    /\ stored_version = None
    /\ hosts = <<>>
    /\ list_of_files = <<>>
    /\ update_ts = <<"t", "s">>
    /\ fidx = 0
    /\ outcome = "none"
    /\ manifest_at_start = None
    /\ run_uploads = 0
    /\ run_manifest_writes = 0

FtpNext ==
    \/ RunStart
    \/ FtpList
    \/ FtpMdtm
    \/ FtpGate
    \/ FtpTransfer
    \/ FtpTransferFails
    \/ FtpNoVersions
    \/ FtpUpdateManifest
    \/ RotList
    \/ RotContinue
    \/ RotStartCopy
    \/ RotDeleteSrc
    \/ SrvCopyFinish
    \/ RotReturn
    \/ RotKill
    \/ ExtLoad
    \/ ExtFile
    \/ ExtFileFails
    \/ ExtWrite
    \/ FlowDone

SpecFtp == FtpInit /\ [][FtpNext]_vars

\* strings that need escaping or look like JSON punctuation
AwkwardStrings ==
    { <<>>, <<"a">>, <<QUOTE>>, <<BACKSLASH, "n">>, <<"a", ",", " ", QUOTE, "]">>, <<"\n", "}">> }

RECURSIVE SeqsUpTo(_, _)
SeqsUpTo(S, n) ==
    IF n = 0 THEN {<<>>}
    ELSE LET shorter == SeqsUpTo(S, n - 1)
         IN  shorter \cup {Append(q, x) : q \in shorter, x \in S}

ManifestInit ==
    /\ RunIdle
    /\ SharedIdle
    /\ pc = "um_call"
    /\ remote = None /\ local = None /\ newer = FALSE
    /\ source_id \in {<<"s">>, <<"s", QUOTE>>}
    /\ version \in AwkwardStrings
    /\ store = <<>>
    /\ RotIdle
    /\ manifest_blob \in
          {None,
           Some(<<"{", QUOTE>>),
           Some(dumps(dict_set(dict_set(EmptyDict, <<"s">>,
                      manifest_entry(<<"0">>, <<"t">>, << <<"h">> >>, << <<"f">> >>)),
                      OtherSource, OtherEntry), 0))}
    /\ exit_status = -1
    /\ ExtIdle
    /\ script = "none"
    /\ cycle = 0
    /\ remote_files = <<>>
    /\ stored_version = None
    /\ hosts \in SeqsUpTo({<<"h", ":", "/", "/", "x">>, <<QUOTE, BACKSLASH>>}, MaxListLen)
    /\ list_of_files \in SeqsUpTo({RawPath(<<"a">>), <<"b", QUOTE>>, <<>>}, MaxListLen)
    /\ update_ts = <<"t", "s">>
    /\ fidx = 0
    /\ outcome = "none"
    /\ manifest_at_start = manifest_blob
    /\ run_uploads = 0
    /\ run_manifest_writes = 0

ManifestNext ==
    \/ UpdateManifestCall
    \/ LoadManifestCall

SpecManifest == ManifestInit /\ [][ManifestNext]_vars

\* manifest.json as earlier runs of both sources left it
SharedManifest ==
    Some(dumps(dict_set(dict_set(EmptyDict, <<"a">>, entry_of_cycle(<<"a">>, 5)),
                        <<"b">>, entry_of_cycle(<<"b">>, 5)), 0))

SharedInit ==
    /\ pc = "shared"
    /\ remote = None /\ local = None /\ newer = FALSE
    /\ source_id = <<>> /\ version = <<>>
    /\ store = <<>>
    /\ RotIdle
    /\ manifest_blob \in {None, SharedManifest}
    /\ exit_status = -1
    /\ ExtIdle
    /\ FlowIdle
    /\ RunIdle
    /\ read_outcome = "ok"
    /\ writers = [s \in Sources |-> IdleWriter]
    /\ manifest_writes = 0
    /\ overlapped = FALSE

SharedNext ==
    \E s \in Sources :
        \/ WriterLoad(s)
        \/ WriterUpdate(s)
        \/ WriterExtractReturns(s)
        \/ WriterExtractFails(s)
        \/ WriterExtractWrite(s)

SpecShared == SharedInit /\ [][SharedNext]_vars

\* mappings a manifest.json may hold
LoadDocs ==
    { EmptyDict,
      dict_set(EmptyDict, OtherSource, OtherEntry),
      dict_set(dict_set(EmptyDict, <<"s", QUOTE>>,
                        manifest_entry(<<"\n", "}">>, <<"t">>, << <<QUOTE, BACKSLASH>> >>,
                                       << <<"f">>, <<>> >>)),
               OtherSource, extracted_entry(OtherEntry)) }

StrictPrefixes(text) == {SubSeq(text, 1, n) : n \in 0..(Len(text) - 1)}

\* texts that are not JSON: documents cut at any point, and other bytes
NotJson ==
    UNION {StrictPrefixes(dumps(d, 0)) : d \in LoadDocs}
        \cup { <<"n", "o", "t", " ", "j", "s", "o", "n">>, <<"{", "}", "}">>,
               <<"{", QUOTE, "a", QUOTE, "}">> }

LoadInit ==
    /\ pc = "lm_call"
    /\ remote = None /\ local = None /\ newer = FALSE
    /\ source_id = <<>> /\ version = <<>>
    /\ store = <<>>
    /\ RotIdle
    /\ manifest_blob \in {None} \cup {Some(dumps(d, 0)) : d \in LoadDocs}
                               \cup {Some(x) : x \in NotJson}
    /\ exit_status = -1
    /\ ExtIdle
    /\ FlowIdle
    /\ RunIdle
    /\ read_outcome \in ReadOutcomes
    /\ writers = <<>>
    /\ manifest_writes = 0
    /\ overlapped = FALSE

LoadNext == LoadManifestAlone

SpecLoad == LoadInit /\ [][LoadNext]_vars

-----------------------------------------------------------------------------
(* Claims *)

\* the marker without its leading and trailing whitespace, stated without
\* reference to how strip computes it
Trimmed(s) ==
    CHOOSE t \in {SubSeq(s, i, j) : i \in 1..(Len(s) + 1), j \in 0..Len(s)} :
        /\ \E i \in 1..(Len(s) + 1), j \in 0..Len(s) :
              /\ t = SubSeq(s, i, j)
              /\ \A k \in 1..(i - 1) : s[k] \in Whitespace
              /\ \A k \in (j + 1)..Len(s) : s[k] \in Whitespace
        /\ (t # <<>> => t[1] \notin Whitespace /\ t[Len(t)] \notin Whitespace)

\* C1: the gate answers false when the remote marker is absent, true when
\* the remote marker is present and the stored one is absent, and otherwise
\* true exactly when the two markers differ once trimmed -- also when the
\* remote marker is the older of the two.
C1_GateIsTrimmedInequality ==
    pc = "gate_returned" =>
        /\ (~remote.some => newer = FALSE)
        /\ (remote.some /\ ~local.some => newer = TRUE)
        /\ (remote.some /\ local.some =>
                (newer <=> Trimmed(remote.v) # Trimmed(local.v)))

C1_Witness ==
    /\ pc = "gate_returned"
    /\ remote = Some(<<"1", " ">>)
    /\ local = Some(<<" ", "2">>)
    /\ newer = TRUE

-----------------------------------------------------------------------------
(* Rotation claims *)

\* raw/S/latest/{w}/{suffix}
UnderLatest(n) ==
    /\ startswith(n, RAW \o SL \o source_id \o SL \o LATEST \o SL)
    /\ Len(split(n, "/")) >= 5

VersionSegment(n) == split(n, "/")[4]

\* raw/S/latest/{w}/{suffix} -> raw/S/releases/{w}/{suffix}
ArchivePath(n) ==
    LET head == RAW \o SL \o source_id \o SL \o LATEST \o SL
    IN  RAW \o SL \o source_id \o SL \o RELEASES \o SL \o SubSeq(n, Len(head) + 1, Len(n))

\* the blobs the rotation code picks for moving out of the container st
Selected(st) ==
    {n \in DOMAIN st :
        startswith(n, RotationPrefix(rotFn, source_id, version)) /\ selected(n, version)}

\* C3: when update_latest_folder(S, newVersion) returns, every object that
\* was under raw/S/latest/ with a version segment other than newVersion is
\* under raw/S/releases/ with the same suffix and is gone from latest/.
C3_RotationComplete ==
    (rotFn = "latest" /\ pc = "rot_returned" /\ runs = 1) =>
        \A n \in DOMAIN store0 :
            (UnderLatest(n) /\ VersionSegment(n) # version) =>
                /\ Exists(store, ArchivePath(n))
                /\ ~Exists(store, n)

\* C4: a rotation never copies, deletes or overwrites an object under
\* raw/S/latest/{newVersion}/: each is present unchanged in every state.
C4_CurrentVersionUntouched ==
    \A n \in DOMAIN store0 :
        startswith(n, RAW \o SL \o source_id \o SL \o LATEST \o SL \o version \o SL) =>
            /\ Exists(store, n)
            /\ store[n] = store0[n]
            /\ \A c \in calls : c.src # n /\ c.dst # n

C4_Witness ==
    /\ pc = "rot_returned"
    /\ rotFn = "latest"
    /\ moved_count > 0
    /\ \E n \in DOMAIN store0 :
          startswith(n, RAW \o SL \o source_id \o SL \o LATEST \o SL \o version \o SL)

\* C5: in every state of a rotation every object picked for moving is
\* complete at its latest/ path or at its releases/ path, and a source is
\* deleted only once the copy to its destination has reported success.
C5_NoDataLoss ==
    /\ \A n \in Selected(store0) :
          \/ Exists(store, n) /\ store[n].data = store0[n].data
          \/ /\ Exists(store, release_blob_name(n, source_id))
             /\ store[release_blob_name(n, source_id)].data = store0[n].data
    /\ \A c \in calls : c.op = "delete" => c.dstCopy = "success"

\* the container after each picked blob has been moved with its content
Moved(st) ==
    LET sel == Selected(st)
        dsts == {release_blob_name(n, source_id) : n \in sel}
    IN  [x \in (DOMAIN st \ sel) \cup dsts |->
            IF x \in dsts
            THEN st[CHOOSE n \in sel : release_blob_name(n, source_id) = x].data
            ELSE st[x].data]

Contents(st) == [x \in DOMAIN st |-> st[x].data]

\* C6: a rotation run again with the same arguments, after a complete run
\* or after one interrupted between a copy and its delete, completes
\* without error and leaves the container as one uninterrupted rotation
\* does; a run after a complete one issues no copy and no delete.
C6_RerunIdempotent ==
    /\ pc # "rot_error"
    /\ (pc = "rot_returned" /\ runs >= 2) => Contents(store) = Moved(store0)
    /\ \A r \in 1..runs :
          (\E c \in calls : c.op = "return" /\ c.run = r) =>
              ~\E c \in calls : c.run = r + 1 /\ c.op \in {"copy", "delete"}

-----------------------------------------------------------------------------
(* Extraction claims *)

\* the entry of the source in the stored manifest
StoredEntry == dict_get(load_manifest(manifest_blob), source_id)

\* C7: when the processing of a file fails, the extraction run writes no
\* manifest, extracted is not set, extracted_list_of_files is not filled
\* in, and the process ends with exit status 1.
C7_ExtractionAtomic ==
    ext_failures > 0 =>
        /\ ext_writes = 0
        /\ manifest_blob = manifest_at_ext
        /\ ~truthy(dict_get(StoredEntry, K_extracted))
        /\ dict_get(StoredEntry, K_extracted_list_of_files).t = "none"
        /\ pc = "exited"
        /\ exit_status = 1

C7_Witness ==
    /\ ext_failures > 0
    /\ all_extracted # <<>>
    /\ eidx > 2
    /\ pc = "exited"

\* "raw/..." with the raw/ prefix replaced by extracted/
Mirror(path) == EXTRACTED \o SubSeq(path, Len(RAW) + 1, Len(path))

HandlerKind(h) == IF h \in {"gzip", "gzip_misnamed"} THEN "gzip" ELSE h

\* the handler the claim names for a path, given which spelling of the
\* path its suffix tests look at
DispatchOf(spelling, rec) ==
    IF endswith(spelling, DOT_GZ) /\ ~endswith(spelling, DOT_TAR_GZ) THEN "gzip"
    ELSE IF endswith(spelling, DOT_ZIP)
        THEN IF rec.source.magic = "gz" THEN "gzip" ELSE "zip"
    ELSE "copy"

CopiedUntransformed(rec) ==
    rec.handler = "copy" =>
        /\ Len(rec.writes) = 1
        /\ rec.writes[1].name = Mirror(rec.path)
        /\ rec.writes[1].data = rec.source

\* C8 as stated: the suffix tests look at the path as it is spelled.
C8_DispatchAsSpelled ==
    \A i \in 1..Len(handled) :
        handled[i].ok =>
            /\ HandlerKind(handled[i].handler) = DispatchOf(handled[i].path, handled[i])
            /\ CopiedUntransformed(handled[i])

\* C8 (amended): every file goes to exactly one handler, chosen by the
\* lower-cased path: .gz but not .tar.gz is gunzipped; .zip is gunzipped
\* when the blob starts with the gzip magic bytes and unzipped otherwise;
\* every other path is copied unchanged to the path with raw/ replaced by
\* extracted/.
C8_DispatchIgnoringCase ==
    \A i \in 1..Len(handled) :
        handled[i].ok =>
            /\ HandlerKind(handled[i].handler) = DispatchOf(lower(handled[i].path), handled[i])
            /\ CopiedUntransformed(handled[i])

C8_Witness ==
    /\ \E i \in 1..Len(handled) :
          /\ handled[i].ok
          /\ handled[i].handler = "gzip_misnamed"
    /\ \E i \in 1..Len(handled) :
          /\ handled[i].ok
          /\ handled[i].handler = "copy"
          /\ endswith(handled[i].path, DOT_TAR_GZ)

RECURSIVE FileMembers(_)
FileMembers(members) ==
    IF members = <<>> THEN <<>>
    ELSE (IF Head(members).filename[Len(Head(members).filename)] = "/" THEN <<>>
          ELSE <<Head(members)>>) \o FileMembers(Tail(members))

\* raw/P/name.zip -> extracted/P/name
ZipRoot(path) == EXTRACTED \o SubSeq(path, Len(RAW) + 1, Len(path) - Len(DOT_ZIP))

RECURSIVE AllWritten(_)
AllWritten(recs) ==
    IF recs = <<>> THEN <<>> ELSE Names(Head(recs).writes) \o AllWritten(Tail(recs))

\* C9: unzipping raw/P/name.zip writes one object per non-directory member
\* at extracted/P/name/{member path}, in archive order, writes nothing for
\* directory entries, and the recorded list holds exactly those paths.
C9_ZipMembers ==
    /\ \A i \in 1..Len(handled) :
          (handled[i].ok /\ handled[i].handler = "zip") =>
              LET files == FileMembers(handled[i].source.members)
                  root == ZipRoot(handled[i].path)
              IN  /\ Len(handled[i].writes) = Len(files)
                  /\ \A k \in 1..Len(files) :
                        /\ handled[i].writes[k].name = root \o SL \o files[k].filename
                        /\ Exists(store, handled[i].writes[k].name)
                        /\ store[handled[i].writes[k].name].data = File(files[k].id)
                  /\ \A k \in 1..Len(handled[i].source.members) :
                        LET m == handled[i].source.members[k]
                        IN  m.filename[Len(m.filename)] = "/" =>
                                ~Exists(store, root \o SL \o m.filename)
    /\ ext_writes > 0 =>
          /\ dict_get(StoredEntry, K_extracted_list_of_files).t = "list"
          /\ Strs(dict_get(StoredEntry, K_extracted_list_of_files)) = AllWritten(handled)

C9_Witness ==
    /\ ext_writes > 0
    /\ \E i \in 1..Len(handled) :
          /\ handled[i].handler = "zip"
          /\ Len(handled[i].writes) = 2
          /\ endswith(handled[i].path, <<".", "Z", "I", "P">>)

-----------------------------------------------------------------------------
(* Ingestion and manifest claims *)

\* the run ended in its resolver: no marker, and none made up from the clock
ResolverFailed == pc = "exited" /\ ~marker.some /\ script # "api"

PastGate == pc \notin {"idle", "resolve", "gate"} /\ ~ResolverFailed

\* manifest[S].version in the stored manifest, and when the run started
VersionNow == dict_get(StoredEntry, K_version)
VersionAtStart == dict_get(dict_get(load_manifest(manifest_at_start), source_id), K_version)

UpToDateRun ==
    /\ pc = "exited"
    /\ exit_status = 0
    /\ outcome = "uptodate"
    /\ run_uploads = 0
    /\ run_manifest_writes = 0
    /\ manifest_blob = manifest_at_start

\* C2: from a manifest without an entry for S a run passes the gate, and a
\* run that completes its ingestion (transfer, manifest write, rotation and
\* extraction, exit status 0) leaves manifest[S].version equal to its marker
\* V; a run that finds V stored transfers nothing, writes no manifest and
\* ends "already up to date" with exit status 0.
C2_IngestOnceThenUpToDate ==
    /\ PastGate =>
            LET entry == dict_get(load_manifest(manifest_at_start), source_id)
                stored == dict_get(entry, K_version)
            IN  /\ (entry.t = "none" => newer)
                /\ (stored.t = "str" /\ stored.v = version) => UpToDateRun
    /\ (pc = "exited" /\ outcome = "completed") =>
            LET now == VersionNow
            IN  exit_status = 0 /\ newer /\ now.t = "str" /\ now.v = version

C2_Witness ==
    /\ cycle = 2
    /\ pc = "exited"
    /\ outcome = "uptodate"
    /\ script = "bioportal"
    /\ VersionAtStart.t = "str"
    /\ VersionAtStart.v = version
    /\ DOMAIN store # {}

\* C10: after update_manifest(S, version, update_ts, hosts, list_of_files)
\* the loaded manifest has, under S, the same version, the same hosts and
\* the same list_of_files, element by element in the same order.
C10_ManifestRoundTrip ==
    pc = "um_loaded" =>
        LET entry == dict_get(manifest, source_id)
            v == dict_get(entry, K_version)
            h == dict_get(entry, K_hosts)
            f == dict_get(entry, K_list_of_files)
        IN  /\ v.t = "str" /\ v.v = version
            /\ h.t = "list" /\ Len(h.v) = Len(hosts)
            /\ \A i \in 1..Len(hosts) : h.v[i].t = "str" /\ h.v[i].v = hosts[i]
            /\ f.t = "list" /\ Len(f.v) = Len(list_of_files)
            /\ \A i \in 1..Len(list_of_files) :
                  f.v[i].t = "str" /\ f.v[i].v = list_of_files[i]

C10_Witness ==
    /\ pc = "um_loaded"
    /\ manifest_at_start # None
    /\ version = <<"\n", "}">>
    /\ hosts = << <<QUOTE, BACKSLASH>>, <<"h", ":", "/", "/", "x">> >>
    /\ list_of_files = << <<"b", QUOTE>>, RawPath(<<"a">>) >>
    /\ source_id = <<"s", QUOTE>>

\* C11: a read-modify-write of the manifest by source S that nothing
\* interleaves with changes only the entry under S: every other key has in
\* the written document the entry it had in the document read, and no other
\* key appears or disappears.
C11_OtherEntriesKept ==
    pc \in {"um_returned", "um_loaded"} =>
        LET before == load_manifest(manifest_at_start)
            after == load_manifest(manifest_blob)
        IN  /\ dict_keys(after) = dict_keys(before) \cup {source_id}
            /\ \A T \in dict_keys(before) \ {source_id} :
                  /\ dict_get(after, T).t = dict_get(before, T).t
                  /\ dict_get(after, T) = dict_get(before, T)

C11_Witness ==
    /\ pc = "um_returned"
    /\ LET before == load_manifest(manifest_at_start)
       IN  /\ OtherSource \in dict_keys(before)
           /\ source_id \in dict_keys(before)
           /\ dict_get(load_manifest(manifest_blob), OtherSource) = OtherEntry
    /\ manifest_blob # manifest_at_start

-----------------------------------------------------------------------------
(* Shared manifest claims *)

SameValue(x, y) == x.t = y.t /\ x = y

\* source A wrote and then source B wrote, B having read before A's write;
\* B's write is the latest one
WroteOver(A, B) ==
    /\ A # B
    /\ writers[A].pc = "written"
    /\ writers[B].pc = "written"
    /\ writers[B].read_at < writers[A].wrote_at
    /\ writers[A].wrote_at < writers[B].wrote_at
    /\ manifest_writes = writers[B].wrote_at

\* C12: when two sources both read the manifest before either writes, the
\* later write replaces the whole document: the stored manifest is the
\* later writer's document, in which the earlier writer's entry is what it
\* was when the later writer read it, not what the earlier writer stored.
C12_LastWriterWins ==
    \A A, B \in Sources :
        WroteOver(A, B) =>
            LET stored == load_manifest(manifest_blob)
            IN  /\ stored = writers[B].written
                /\ SameValue(dict_get(stored, A), dict_get(writers[B].doc, A))
                /\ ~SameValue(dict_get(writers[A].written, A), dict_get(writers[B].doc, A))
                      => ~SameValue(dict_get(stored, A), dict_get(writers[A].written, A))

\* the update of source a is lost to the write of source b, with every read
\* of the manifest successful
C12_Witness ==
    /\ WroteOver(<<"a">>, <<"b">>)
    /\ writers[<<"a">>].read_at < writers[<<"b">>].wrote_at
    /\ writers[<<"a">>].op = "update"
    /\ dict_keys(writers[<<"a">>].doc) = Sources
    /\ dict_keys(writers[<<"b">>].doc) = Sources
    /\ ~SameValue(dict_get(load_manifest(manifest_blob), <<"a">>),
                  dict_get(writers[<<"a">>].written, <<"a">>))

\* C14: as long as the sources work on the manifest one at a time, no step
\* produces a manifest that lacks a key the manifest had before the step.
C14_EntriesNeverDeleted ==
    [][~overlapped' =>
          dict_keys(load_manifest(manifest_blob)) \subseteq
              dict_keys(load_manifest(manifest_blob'))]_vars

\* C13: load_manifest always returns a mapping: the empty one when the
\* blob is missing, when its download fails or when its text is not JSON,
\* and the stored mapping when the blob is read and holds one.
C13_LoadNeverRaises ==
    pc = "lm_returned" =>
        /\ manifest.t = "dict"
        /\ (~manifest_blob.some \/ read_outcome # "ok") => manifest = EmptyDict
        /\ (manifest_blob.some /\ manifest_blob.v \in NotJson) => manifest = EmptyDict
        /\ \A d \in LoadDocs :
              (read_outcome = "ok" /\ manifest_blob = Some(dumps(d, 0))) => manifest = d

C13_Witness ==
    /\ pc = "lm_returned"
    /\ read_outcome = "ok"
    /\ manifest_blob.some
    /\ manifest_blob.v \in NotJson
    /\ Len(manifest_blob.v) > 40
    /\ manifest = EmptyDict

-----------------------------------------------------------------------------
(* Claims about the order and the failures of one ingestion run *)

\* the rotation of this run has been invoked
RotationInvoked == run_manifest_writes > 0 /\ pc # "transfer"

\* C19: a run whose resolver yields no marker transfers no file, rotates
\* nothing and leaves the manifest as it found it, in every flow.
C19_NoMarkerNoIngestion ==
    (pc \notin {"idle", "resolve"} /\ ~marker.some) =>
        /\ run_uploads = 0
        /\ ~RotationInvoked
        /\ run_manifest_writes = 0
        /\ manifest_blob = manifest_at_start

\* the run before this one uploaded files and stopped, by failure or kill,
\* before it wrote the manifest; this run resolved the same marker
Recovering ==
    /\ cycle >= 2
    /\ prev_run.uploads > 0
    /\ prev_run.manifest_writes = 0
    /\ prev_run.exit_status # 0
    /\ PastGate
    /\ version = prev_run.version

ExtractionFailedBefore ==
    /\ cycle >= 2
    /\ prev_run.manifest_writes > 0
    /\ prev_run.exit_status = 1

\* C17: when the extraction of a run failed, a run started again with the
\* same marker runs the extraction again: when it has ended with status 0,
\* manifest[S].extracted is true.
C17_ExtractionRetried ==
    (/\ ExtractionFailedBefore
     /\ marker.some \/ script = "api"
     /\ version = prev_run.version
     /\ pc = "exited"
     /\ exit_status = 0) =>
        /\ outcome = "completed"
        /\ truthy(dict_get(StoredEntry, K_extracted))

\* the step of the run the task is in: 1 resolve, 2 gate, 3 transfer (the
\* manifest update ends it), 5 rotate, 6 extract, 7 ended
Step ==
    CASE pc = "idle" -> 0
      [] pc = "resolve" -> 1
      [] pc = "ftp_file" /\ fidx <= Len(remote_files) -> 1
      [] pc \in {"gate", "ftp_gate"} -> 2
      [] pc \in {"transfer", "ftp_transfer"} -> 3
      [] pc = "ftp_file" /\ fidx > Len(remote_files) -> 3
      [] pc \in {"rot_call", "rot_loop", "rot_copied", "rot_error"} -> 5
      [] pc \in {"ext_call", "ext_loop", "ext_returned"} -> 6
      [] OTHER -> 7

\* C15: within one run the steps come in the order resolve, gate, transfer
\* of all files, manifest update, rotation, extraction: the task never goes
\* back to an earlier step, the gate is decided before any file is
\* transferred, the manifest is written when every file has been
\* transferred, and the rotation moves blobs only after that write.
C15_StepsInOrder ==
    [][cycle' = cycle =>
          /\ Step' >= Step
          /\ (Step = 2 /\ Step' # 2) => run_uploads = 0
          /\ run_uploads' > run_uploads => Step = 3
          /\ run_manifest_writes' > run_manifest_writes =>
                (Step = 3 /\ fidx > Len(remote_files) /\ Step' = 5)
          /\ (Step = 5 /\ store' # store) => run_manifest_writes = 1
          /\ Step' = 6 => Step \in {5, 6}]_vars

\* C20: once a run has written manifest[S] with version V, every path of
\* the stored list_of_files starts with raw/S/latest/V/ and is a path this
\* run's transfer wrote, which holds an object when the rotation is called.
C20_ListedPathsUnderVersion ==
    (run_manifest_writes > 0 /\ pc \in {"rot_call", "exited"}) =>
        LET entry == StoredEntry
            V == dict_get(entry, K_version)
            files == dict_get(entry, K_list_of_files)
        IN  /\ V.t = "str"
            /\ files.t = "list"
            /\ \A i \in 1..Len(files.v) :
                  /\ files.v[i].t = "str"
                  /\ startswith(files.v[i].v, blob_name_for(source_id, V.v, <<>>))
                  /\ files.v[i].v \in Range(list_of_files)
                  /\ pc = "rot_call" => Exists(store, files.v[i].v)

\* C16: in a run the rotation is invoked only when every file has been
\* uploaded, it is not invoked again once it runs, and the manifest is
\* written with the new version only when the rotation of the run has
\* returned.
C16_RotateOnceThenManifest ==
    [][cycle' = cycle =>
          /\ (pc' = "rot_call" /\ pc # "rot_call") =>
                (fidx > Len(remote_files) /\ run_uploads = Len(remote_files))
          /\ Step >= 5 => pc' # "rot_call"
          /\ run_manifest_writes' > run_manifest_writes => Step > 5]_vars

-----------------------------------------------------------------------------
(* Claims about the FTP flow *)

InFtpLoop == script = "ftp" /\ pc \in {"ftp_file", "ftp_gate", "ftp_transfer"}

\* the files of the listing the loop has finished with
FtpPassed == {i \in 1..Len(remote_files) : i < fidx}

C30_UpToDateWritesNothing ==
    (pc = "exited" /\ outcome = "uptodate") =>
        /\ exit_status = 0
        /\ run_uploads = 0
        /\ list_of_files = <<>>

\* the run before this one completed and the host lists now what it listed
\* then, file by file with the same dates
FtpUnchangedRerun ==
    /\ script = "ftp"
    /\ cycle >= 2
    /\ prev_run.manifest_writes > 0
    /\ prev_run.exit_status = 0
    /\ pc # "resolve"
    /\ remote_files = prev_run.listing

\* C29: when the listing and its dates are unchanged since the last
\* completed run, the re-run uploads no file, writes no manifest and, once
\* ended, has exit status 0.
C29_UnchangedFtpRerunIsNoOp ==
    FtpUnchangedRerun =>
        /\ run_uploads = 0
        /\ run_manifest_writes = 0
        /\ pc = "exited" => exit_status = 0

\* no run of the source is in progress and the last one completed
AtRest == pc = "exited" /\ outcome = "completed" /\ exit_status = 0

\* C21: at rest after a completed run, every object under raw/S/latest/
\* has the version segment manifest[S].version.
C21_OneVersionUnderLatest ==
    AtRest =>
        LET V == VersionNow
        IN  /\ V.t = "str"
            /\ \A n \in DOMAIN store :
                  startswith(n, ftp_latest_prefix(source_id)) => split(n, "/")[4] = V.v

-----------------------------------------------------------------------------
(* Claims about the extracted flag *)

\* the run has written its entry and its extraction has not written yet
EntryFresh ==
    /\ run_manifest_writes > 0
    /\ pc \in {"rot_call", "rot_loop", "rot_copied", "rot_killed", "ext_call", "ext_loop"}

\* C24: manifest[S].extracted is true only when the manifest is as the run
\* found it or the extraction of the run went through every path of the
\* entry's list_of_files without a failure before it wrote the flag; and
\* the entry an ingestion run writes holds exactly version, update_ts, hosts
\* and list_of_files, so no extracted flag of an earlier version is in it.
C24_ExtractedOnlyAfterFullExtraction ==
    LET entry == StoredEntry
    IN  /\ truthy(dict_get(entry, K_extracted)) =>
              \/ manifest_blob = manifest_at_start
              \/ LET files == Strs(dict_get(entry, K_list_of_files))
                 IN  /\ ext_writes > 0
                     /\ ext_failures = 0
                     /\ Len(handled) = Len(files)
                     /\ \A i \in 1..Len(files) : handled[i].path = files[i] /\ handled[i].ok
        /\ EntryFresh =>
              /\ SameValue(entry, manifest_entry(version, update_ts, hosts, list_of_files))
              /\ dict_get(entry, K_extracted).t = "none"
              /\ dict_get(entry, K_extracted_list_of_files).t = "none"

C24_Witness ==
    /\ cycle = 2
    /\ pc = "ext_call"
    /\ run_manifest_writes = 1
    /\ list_of_files # <<>>
    /\ truthy(dict_get(dict_get(load_manifest(manifest_at_start), source_id), K_extracted))

-----------------------------------------------------------------------------
(* Claims about failed transfers *)

TransferFailed == outcome \in {"http_error", "transfer_error"}

\* C23: a response that is not 2xx raises with the container as it was, an
\* error during the transfer ends the script too, both with exit status 1,
\* and the run that failed so writes no manifest, rotates nothing and
\* extracts nothing.
C23_FailedTransferEndsRun ==
    [][/\ (outcome' = "http_error" /\ outcome # "http_error") =>
              (store' = store /\ pc' = "exited" /\ exit_status' = 1)
       /\ (outcome' = "transfer_error" /\ outcome # "transfer_error") =>
              (pc' = "exited" /\ exit_status' = 1)
       /\ TransferFailed =>
              /\ pc = "exited"
              /\ exit_status = 1
              /\ run_manifest_writes = 0
              /\ manifest_blob = manifest_at_start
       /\ (TransferFailed /\ cycle' = cycle) =>
              (pc' = pc /\ manifest_blob' = manifest_blob)]_vars

C23_Witness ==
    /\ outcome = "http_error"
    /\ pc = "exited"
    /\ run_uploads = 1
    /\ fidx = 2
    /\ ~Exists(store, blob_name_for(source_id, version, remote_files[fidx].filename))

-----------------------------------------------------------------------------
(* The job manager: one task per configured source *)

\* every variable of the ingestion runs but the container at rest, while a
\* helper function is called on its own
HelperIdle ==
    /\ remote = None /\ local = None /\ newer = FALSE
    /\ source_id = <<>> /\ version = <<>>
    /\ RotIdle
    /\ manifest_blob = None
    /\ exit_status = -1
    /\ ExtIdle
    /\ FlowIdle
    /\ SharedIdle
    /\ marker = None
    /\ prev_run = NoRun
    /\ detected_versions = {}

CUSTOM == <<"c", "u", "s", "t", "o", "m">>
OLS == <<"o", "l", "s">>
WEB == <<"w", "e", "b">>
FTP == <<"f", "t", "p">>

PYTHON_SRC_SCRIPTS == <<"p", "y", "t", "h", "o", "n", " ", "s", "r", "c", "/", "s", "c", "r", "i", "p", "t", "s", "/">>
DOT_PY == <<".", "p", "y">>
ID_FLAG == <<" ", "-", "i", "d", " ">>

MaxSourcesPerGroup == 2

JobGroups == <<OLS, CUSTOM, WEB, FTP>>
JobSourceIds == {<<"a">>, <<"b">>}

\* a faulty variant of build_command_line: the parameter is passed to the
\* scripts of the custom group too
build_command_line_AlwaysId(group, sid) ==
    PYTHON_SRC_SCRIPTS \o (IF group = CUSTOM THEN sid ELSE group) \o DOT_PY \o ID_FLAG \o sid

build_command_line(group, sid) ==
    IF group = CUSTOM
    THEN PYTHON_SRC_SCRIPTS \o sid \o DOT_PY
    ELSE PYTHON_SRC_SCRIPTS \o group \o DOT_PY \o ID_FLAG \o sid

build_task(group, sid) ==
    [id |-> group \o <<"_">> \o sid,
     command_line |-> build_command_line(group, sid)]

\* the payload of a group in sources.yaml: a list of source ids, which may
\* repeat, or a mapping keyed by source id, whose keys are distinct
JobPayloads ==
    {[kind |-> "list", ids |-> q] : q \in SeqsUpTo(JobSourceIds, MaxSourcesPerGroup)}
    \cup {[kind |-> "dict", ids |-> q] : q \in DistinctSeqs(JobSourceIds, MaxSourcesPerGroup)}

\* the kind of payload enumerate_sources accepts for a group
payload_kind(group) == IF group \in {OLS, CUSTOM} THEN "list" ELSE "dict"

\* the sources mapping: the groups in the order of the file, custom and one
\* other group with any payload, ols and ftp with a payload or absent
JobConfigs ==
    {SelectSeq(<<[group |-> OLS, payload |-> o, there |-> oThere],
                 [group |-> CUSTOM, payload |-> c, there |-> TRUE],
                 [group |-> WEB, payload |-> w, there |-> TRUE],
                 [group |-> FTP, payload |-> [kind |-> "dict", ids |-> f], there |-> f # <<>>]>>,
               LAMBDA e : e.there) :
        o \in {p \in JobPayloads : p.kind = "list" /\ Len(p.ids) = 1},
        oThere \in BOOLEAN,
        c \in JobPayloads, w \in JobPayloads,
        f \in {<<>>, <<<<"a">>>>}}

JobInit ==
    /\ HelperIdle
    /\ store = <<>>
    /\ pc = "jm_enumerate"
    /\ \E cfg \in JobConfigs :
           locals = [fn |-> "main", sources |-> cfg, g |-> 1, i |-> 1, task_list |-> <<>>]

\* the generator is resumed inside a group: the next source id is yielded
\* and main builds its task
JobYield ==
    /\ pc = "jm_enumerate"
    /\ locals.g <= Len(locals.sources)
    /\ LET e == locals.sources[locals.g] IN
           /\ e.payload.kind = payload_kind(e.group)
           /\ locals.i <= Len(e.payload.ids)
           /\ locals' = [locals EXCEPT
                  !.task_list = Append(@, build_task(e.group, e.payload.ids[locals.i])),
                  !.i = @ + 1]
    /\ UNCHANGED pc
    /\ UNCHANGED <<gateVars, argVars, store, rotVars, manifest_blob, exit_status, extVars,
                   flowVars, marker, prev_run, detected_versions, sharedVars>>

\* the payload of a group is exhausted: the generator moves to the next
JobNextGroup ==
    /\ pc = "jm_enumerate"
    /\ locals.g <= Len(locals.sources)
    /\ LET e == locals.sources[locals.g] IN
           /\ e.payload.kind = payload_kind(e.group)
           /\ locals.i > Len(e.payload.ids)
    /\ locals' = [locals EXCEPT !.g = @ + 1, !.i = 1]
    /\ UNCHANGED pc
    /\ UNCHANGED <<gateVars, argVars, store, rotVars, manifest_blob, exit_status, extVars,
                   flowVars, marker, prev_run, detected_versions, sharedVars>>

\* the payload of a group has the wrong type: ValueError leaves list(tasks)
\* and main, nothing is submitted
JobMalformed ==
    /\ pc = "jm_enumerate"
    /\ locals.g <= Len(locals.sources)
    /\ locals.sources[locals.g].payload.kind # payload_kind(locals.sources[locals.g].group)
    /\ pc' = "jm_raised"
    /\ exit_status' = 1
    /\ UNCHANGED <<gateVars, argVars, store, rotVars, manifest_blob, extVars,
                   flowVars, runVars, sharedVars>>

\* the generator is exhausted: submit_tasks hands the list to the job
JobSubmit ==
    /\ pc = "jm_enumerate"
    /\ locals.g > Len(locals.sources)
    /\ pc' = "jm_submitted"
    /\ exit_status' = 0
    /\ UNCHANGED <<gateVars, argVars, store, rotVars, manifest_blob, extVars,
                   flowVars, runVars, sharedVars>>

JobNext == JobYield \/ JobNextGroup \/ JobMalformed \/ JobSubmit

SpecJobs == JobInit /\ [][JobNext]_vars

\* the configured sources of the first n groups, in the order of the file
RECURSIVE ConfiguredSources(_, _)
ConfiguredSources(cfg, n) ==
    IF n = 0 THEN <<>>
    ELSE ConfiguredSources(cfg, n - 1)
         \o [k \in 1..Len(cfg[n].payload.ids) |-> <<cfg[n].group, cfg[n].payload.ids[k]>>]

\* C26: the command of a custom source is its own script with no parameter,
\* the command of any other source is the script of its group with the
\* parameter -id and the source, and the list handed to the job holds one
\* task per configured source, in order, with the id group_source.
C26_OneTaskPerSource ==
    /\ build_command_line(CUSTOM, <<"a">>) = <<"p", "y", "t", "h", "o", "n", " ", "s", "r", "c", "/", "s", "c", "r", "i", "p", "t", "s", "/", "a", ".", "p", "y">>
    /\ build_command_line(WEB, <<"b">>) = <<"p", "y", "t", "h", "o", "n", " ", "s", "r", "c", "/", "s", "c", "r", "i", "p", "t", "s", "/", "w", "e", "b", ".", "p", "y", " ", "-", "i", "d", " ", "b">>
    /\ build_command_line(OLS, <<"a">>) = <<"p", "y", "t", "h", "o", "n", " ", "s", "r", "c", "/", "s", "c", "r", "i", "p", "t", "s", "/", "o", "l", "s", ".", "p", "y", " ", "-", "i", "d", " ", "a">>
    /\ pc \in {"jm_enumerate", "jm_submitted"} =>
           \A k \in 1..Len(locals.task_list) :
               LET t == locals.task_list[k]
                   p == ConfiguredSources(locals.sources, Len(locals.sources))[k]
               IN  /\ t.id = p[1] \o <<"_">> \o p[2]
                   /\ startswith(t.command_line, PYTHON_SRC_SCRIPTS)
                   /\ IF p[1] = CUSTOM
                      THEN /\ t.command_line = PYTHON_SRC_SCRIPTS \o p[2] \o DOT_PY
                           /\ find(t.command_line, ID_FLAG) = 0
                      ELSE t.command_line =
                               PYTHON_SRC_SCRIPTS \o p[1] \o DOT_PY \o ID_FLAG \o p[2]
    /\ pc = "jm_submitted" =>
           Len(locals.task_list) =
               Len(ConfiguredSources(locals.sources, Len(locals.sources)))

C26_Witness ==
    /\ pc = "jm_submitted"
    /\ Len(locals.task_list) = 5
    /\ \E k \in 1..5 : locals.task_list[k].id = <<"c", "u", "s", "t", "o", "m", "_", "b">>
    /\ \E k \in 1..5 : locals.task_list[k].command_line = <<"p", "y", "t", "h", "o", "n", " ", "s", "r", "c", "/", "s", "c", "r", "i", "p", "t", "s", "/", "f", "t", "p", ".", "p", "y", " ", "-", "i", "d", " ", "a">>

-----------------------------------------------------------------------------
(* connect_ftp: the retried connection to an FTP host *)

DEFAULT_RETRIES == 5
BASE_DELAY == 2

\* random.uniform(0, 1), in tenths of a second: 0 + (1 - 0) * random()
\* with random() in [0, 1)
JitterTenths == {0, 5, 9}

\* a faulty variant of the delay: it grows by base_delay with every attempt
backoff_Linear(base_delay, attempt) == base_delay * attempt

\* base_delay * (2 ** (attempt - 1)), the part of the delay without jitter
backoff(base_delay, attempt) == base_delay * 2 ^ (attempt - 1)

\* the exceptions connect_ftp catches and retries on
TransientErrors == {"ConnectionResetError", "socket.timeout", "error_temp"}

\* exceptions of FTP.connect and FTP.login that connect_ftp does not catch
OtherErrors == {"error_perm", "gaierror"}

ConnectInit ==
    /\ HelperIdle
    /\ store = <<>>
    /\ pc = "cf_loop"
    /\ \E r \in 0..DEFAULT_RETRIES, b \in {1, BASE_DELAY} :
           locals = [fn |-> "connect_ftp", retries |-> r, base_delay |-> b, attempt |-> 1,
                     last_exc |-> "None", sleep |-> 0, jitter |-> 0, attempts |-> <<>>,
                     raised |-> "None", cause |-> "None"]

\* the body of the try ran to its end: the connection is returned
ConnectSucceeds ==
    /\ pc = "cf_loop"
    /\ locals.attempt <= locals.retries
    /\ locals' = [locals EXCEPT !.attempts = Append(@, "ok")]
    /\ pc' = "cf_returned"
    /\ UNCHANGED <<gateVars, argVars, store, rotVars, manifest_blob, exit_status, extVars,
                   flowVars, marker, prev_run, detected_versions, sharedVars>>

\* a faulty variant of ConnectTransient: the first transient error is fatal
ConnectTransient_NoRetry ==
    /\ pc = "cf_loop"
    /\ locals.attempt <= locals.retries
    /\ \E exc \in TransientErrors :
           locals' = [locals EXCEPT !.attempts = Append(@, exc),
                                    !.raised = "RuntimeError", !.cause = exc]
    /\ pc' = "cf_raised"
    /\ UNCHANGED <<gateVars, argVars, store, rotVars, manifest_blob, exit_status, extVars,
                   flowVars, marker, prev_run, detected_versions, sharedVars>>

\* connect or login raised one of the caught exceptions: it is kept as
\* last_exc and the delay of this attempt is computed, sleep seconds plus
\* jitter tenths of a second
ConnectTransient ==
    /\ pc = "cf_loop"
    /\ locals.attempt <= locals.retries
    /\ \E exc \in TransientErrors, j \in JitterTenths :
           locals' = [locals EXCEPT !.attempts = Append(@, exc),
                                    !.last_exc = exc,
                                    !.sleep = backoff(locals.base_delay, locals.attempt),
                                    !.jitter = j]
    /\ pc' = "cf_sleep"
    /\ UNCHANGED <<gateVars, argVars, store, rotVars, manifest_blob, exit_status, extVars,
                   flowVars, marker, prev_run, detected_versions, sharedVars>>

\* connect or login raised another exception: it leaves connect_ftp
ConnectOtherError ==
    /\ pc = "cf_loop"
    /\ locals.attempt <= locals.retries
    /\ \E exc \in OtherErrors :
           locals' = [locals EXCEPT !.attempts = Append(@, exc), !.raised = exc]
    /\ pc' = "cf_raised"
    /\ UNCHANGED <<gateVars, argVars, store, rotVars, manifest_blob, exit_status, extVars,
                   flowVars, marker, prev_run, detected_versions, sharedVars>>

\* time.sleep returned: the loop takes the next attempt number
ConnectSleep ==
    /\ pc = "cf_sleep"
    /\ locals' = [locals EXCEPT !.attempt = @ + 1]
    /\ pc' = "cf_loop"
    /\ UNCHANGED <<gateVars, argVars, store, rotVars, manifest_blob, exit_status, extVars,
                   flowVars, marker, prev_run, detected_versions, sharedVars>>

\* the range of attempts is exhausted: RuntimeError from last_exc
ConnectExhausted ==
    /\ pc = "cf_loop"
    /\ locals.attempt > locals.retries
    /\ locals' = [locals EXCEPT !.raised = "RuntimeError", !.cause = locals.last_exc]
    /\ pc' = "cf_raised"
    /\ UNCHANGED <<gateVars, argVars, store, rotVars, manifest_blob, exit_status, extVars,
                   flowVars, marker, prev_run, detected_versions, sharedVars>>

ConnectNext ==
    \/ ConnectSucceeds
    \/ ConnectTransient
    \/ ConnectOtherError
    \/ ConnectSleep
    \/ ConnectExhausted

SpecConnect == ConnectInit /\ [][ConnectNext]_vars

\* connect, login and sleep are blocking calls bounded by the socket
\* timeout and the delay, and the loop is sequential code: a step that
\* can be taken is taken
SpecConnectLive == SpecConnect /\ WF_vars(ConnectNext)

ConnectDone == pc \in {"cf_returned", "cf_raised"}

AllTransient(q) == \A k \in 1..Len(q) : q[k] \in TransientErrors

\* C22: connect_ftp ends; it makes at most retries attempts, the attempt
\* that succeeds is the last one and returns the connection, and when every
\* attempt failed with a transient error it raises RuntimeError after
\* exactly retries attempts.
C22_ConnectTerminates ==
    /\ <>ConnectDone
    /\ [](Len(locals.attempts) <= locals.retries)
    /\ [](\A k \in 1..Len(locals.attempts) :
              locals.attempts[k] = "ok" => (k = Len(locals.attempts) /\ pc = "cf_returned"))
    /\ [](pc = "cf_returned" =>
              /\ locals.attempts # <<>>
              /\ locals.attempts[Len(locals.attempts)] = "ok"
              /\ locals.raised = "None")
    /\ []((ConnectDone /\ AllTransient(locals.attempts)) =>
              /\ pc = "cf_raised"
              /\ locals.raised = "RuntimeError"
              /\ Len(locals.attempts) = locals.retries)
    /\ [][ConnectDone => UNCHANGED <<pc, locals>>]_vars

C22_Witness ==
    /\ pc = "cf_raised"
    /\ locals.raised = "RuntimeError"
    /\ locals.retries = DEFAULT_RETRIES
    /\ Len(locals.attempts) = DEFAULT_RETRIES
    /\ locals.cause = "error_temp"
    /\ locals.attempts[1] = "socket.timeout"

-----------------------------------------------------------------------------
(* copy_blob_within_container: server-side copy, polled, then the source is deleted *)

helperRest == <<gateVars, argVars, rotVars, manifest_blob, exit_status, extVars, flowVars,
                marker, prev_run, detected_versions, sharedVars>>

\* a faulty variant of the loop test: the status is never waited for
still_pending_Never(status) == FALSE

\* while props.copy.status == "pending"
still_pending(status) == status = "pending"

\* the sources the copy is asked to move and where to
CopySources == {RotNames[i] : i \in 1..3}

CopyInit ==
    /\ HelperIdle
    /\ pc = "cp_call"
    /\ store \in RotStores
    /\ \E src \in CopySources :
           locals = [fn |-> "copy_blob_within_container",
                     source_name |-> src,
                     destination_name |-> release_blob_name(src, <<"s">>),
                     source_blob |-> IF Exists(store, src) THEN Some(store[src].data) ELSE None,
                     props |-> "none", waited |-> FALSE, abort_attempted |-> FALSE,
                     raised |-> "None"]

\* destination_client.start_copy_from_url(source_client.url): the service
\* answers with the copy finished or pending; a missing source is refused
CopyStart ==
    /\ pc = "cp_call"
    /\ IF ~Exists(store, locals.source_name)
       THEN /\ pc' = "cp_raised"
            /\ locals' = [locals EXCEPT !.raised = "ResourceNotFoundError"]
            /\ UNCHANGED store
       ELSE /\ \E status \in {"success", "pending"} :
                  store' = Put(store, locals.destination_name,
                      [data |-> IF status = "success" THEN store[locals.source_name].data
                                ELSE Incomplete,
                       copy |-> status, src |-> locals.source_name])
            /\ pc' = "cp_started"
            /\ UNCHANGED locals
    /\ UNCHANGED helperRest

\* props = destination_client.get_blob_properties(), before the loop
CopyGetProps ==
    /\ pc = "cp_started"
    /\ locals' = [locals EXCEPT !.props = store[locals.destination_name].copy]
    /\ pc' = "cp_loop"
    /\ UNCHANGED store
    /\ UNCHANGED helperRest

\* the body of the while loop: sleep a second, read the properties again
CopyPoll ==
    /\ pc = "cp_loop"
    /\ still_pending(locals.props)
    /\ locals' = [locals EXCEPT !.props = store[locals.destination_name].copy,
                                !.waited = TRUE]
    /\ UNCHANGED <<pc, store>>
    /\ UNCHANGED helperRest

\* the storage service ends a pending copy, with or without success
CopySrvFinish ==
    /\ pc \in {"cp_started", "cp_loop"}
    /\ store[locals.destination_name].copy = "pending"
    /\ \E status \in {"success", "failed"} :
           store' = [store EXCEPT ![locals.destination_name] =
               [data |-> IF status = "success" THEN store[locals.source_name].data
                         ELSE Incomplete,
                copy |-> status, src |-> locals.source_name]]
    /\ UNCHANGED <<pc, locals>>
    /\ UNCHANGED helperRest

\* the status is not "success": abort_copy is attempted, which only a
\* pending copy accepts and whose refusal is swallowed, then RuntimeError
CopyAbortRaise ==
    /\ pc = "cp_loop"
    /\ ~still_pending(locals.props)
    /\ locals.props # "success"
    /\ store' = IF store[locals.destination_name].copy = "pending"
                THEN [store EXCEPT ![locals.destination_name].copy = "aborted"]
                ELSE store
    /\ locals' = [locals EXCEPT !.abort_attempted = TRUE, !.raised = "RuntimeError"]
    /\ pc' = "cp_raised"
    /\ UNCHANGED helperRest

\* the status is "success": source_client.delete_blob()
CopyDeleteSource ==
    /\ pc = "cp_loop"
    /\ ~still_pending(locals.props)
    /\ locals.props = "success"
    /\ store' = Delete(store, locals.source_name)
    /\ pc' = "cp_returned"
    /\ UNCHANGED locals
    /\ UNCHANGED helperRest

CopyClientNext ==
    \/ CopyStart
    \/ CopyGetProps
    \/ CopyPoll
    \/ CopyAbortRaise
    \/ CopyDeleteSource

CopyNext == CopyClientNext \/ CopySrvFinish

SpecCopy == CopyInit /\ [][CopyNext]_vars

\* the function is sequential code whose calls return; nothing is assumed
\* of the storage service
SpecCopyLive == SpecCopy /\ WF_vars(CopyClientNext)

CopyDone == pc \in {"cp_returned", "cp_raised"}

CopyLeftPending ==
    /\ pc \in {"cp_started", "cp_loop"}
    /\ store[locals.destination_name].copy # "pending"

\* C28: the status is read again as long as it is "pending"; with a final
\* status other than "success" the abort is attempted, RuntimeError is
\* raised and the source stays as it was; the source is deleted only on
\* "success", with the destination holding its content; and once the copy
\* has left "pending" the function ends.
C28_CopyPolledThenSourceDeleted ==
    /\ [](CopyDone /\ locals.raised # "ResourceNotFoundError" => locals.props # "pending")
    /\ [](locals.raised = "RuntimeError" =>
              /\ pc = "cp_raised"
              /\ locals.props # "success"
              /\ locals.abort_attempted
              /\ Exists(store, locals.source_name)
              /\ Some(store[locals.source_name].data) = locals.source_blob)
    /\ [](pc = "cp_returned" =>
              /\ locals.props = "success"
              /\ ~locals.abort_attempted
              /\ ~Exists(store, locals.source_name)
              /\ Exists(store, locals.destination_name)
              /\ store[locals.destination_name].copy = "success"
              /\ Some(store[locals.destination_name].data) = locals.source_blob)
    /\ [][(Exists(store, locals.source_name) /\ ~Exists(store', locals.source_name)) =>
              (locals.props = "success" /\ store[locals.destination_name].copy = "success")]_vars
    /\ [][locals'.waited # locals.waited => locals.props = "pending"]_vars
    /\ (CopyLeftPending ~> CopyDone)

C28_Witness ==
    /\ pc = "cp_raised"
    /\ locals.raised = "RuntimeError"
    /\ locals.waited
    /\ locals.props = "failed"
    /\ Exists(store, locals.source_name)
    /\ store[locals.destination_name].data = Incomplete

-----------------------------------------------------------------------------
(* The pathway_commons script: download_latest_pc2_hgnc *)

\* the names are shortened, which keeps the texts of the manifest small:
\* "pc" for "pathway_commons", "bl" for "bronze_layer", "pc.gz" for
\* "pc-hgnc.txt.gz"
PATHWAY_COMMONS == <<"p", "c">>
BRONZE_LAYER == <<"b", "l">>
TARGET_FILENAME == <<"p", "c", ".", "g", "z">>

\* f"raw/bronze_layer/pathway_commons/latest/{date_str}/{TARGET_FILENAME}"
pc_blob_path(date_str) ==
    RAW \o SL \o BRONZE_LAYER \o SL \o PATHWAY_COMMONS \o SL \o LATEST \o SL \o date_str
        \o SL \o TARGET_FILENAME

\* manifest.json with the entry an earlier run of the script wrote for a date
PcManifest(date_str) ==
    Some(update_manifest(None, PATHWAY_COMMONS, date_str, <<"t", "s">>, << <<"u", "/", "v">> >>,
                         <<pc_blob_path(date_str)>>))

PcInit ==
    /\ RunIdle
    /\ SharedIdle
    /\ pc = "idle"
    /\ remote = None /\ local = None /\ newer = FALSE
    /\ source_id = PATHWAY_COMMONS /\ version = <<>>
    /\ \E earlier \in {None} \cup {Some(d) : d \in FlowVersions} :
           /\ manifest_blob = IF earlier.some THEN PcManifest(earlier.v) ELSE None
           /\ store = IF earlier.some
                      THEN Put(<<>>, pc_blob_path(earlier.v), Blob(File(7)))
                      ELSE <<>>
    /\ RotIdle
    /\ exit_status = -1
    /\ ExtIdle
    /\ script = "pathway_commons"
    /\ cycle = 0
    /\ remote_files = <<>>
    /\ stored_version = None
    /\ hosts = <<>>
    /\ list_of_files = <<>>
    /\ update_ts = <<"t", "s">>
    /\ fidx = 0
    /\ outcome = "none"
    /\ manifest_at_start = None
    /\ run_uploads = 0
    /\ run_manifest_writes = 0

\* steps 1 and 2: the version folders are probed and the latest
\* Last-Modified date wins; with no folder RuntimeError is raised, with no
\* probe answered best_last_modified is None and strftime raises
PcResolve ==
    /\ pc = "resolve"
    /\ script = "pathway_commons"
    /\ marker' \in {None} \cup {Some(v) : v \in FlowVersions}
    /\ IF marker'.some
       THEN /\ version' = marker'.v
            /\ remote_files' \in {<<[filename |-> TARGET_FILENAME, data |-> d]>> :
                                      d \in {File(5), File(6)}}
            /\ pc' = "pc_gate"
            /\ UNCHANGED exit_status
       ELSE /\ pc' = "exited"
            /\ exit_status' = 1
            /\ UNCHANGED <<version, remote_files>>
    /\ UNCHANGED <<gateVars, source_id, store, rotVars, manifest_blob, extVars,
                   script, cycle, stored_version, hosts, list_of_files, update_ts, fidx,
                   outcome, manifest_at_start, run_uploads, run_manifest_writes>>
    /\ UNCHANGED <<prev_run, detected_versions, locals, sharedVars>>

\* stored_version = extract_version("pathway_commons", ...);
\* if is_newer_version(remote=stored_version, local=date_str): return
PcGate ==
    /\ pc = "pc_gate"
    /\ stored_version' = extract_version(manifest_blob, source_id)
    /\ newer' = is_newer_version(stored_version', Some(version))
    /\ IF newer'
       THEN /\ pc' = "exited"
            /\ exit_status' = 0
            /\ outcome' = "uptodate"
       ELSE /\ pc' = "pc_transfer"
            /\ UNCHANGED <<exit_status, outcome>>
    /\ UNCHANGED <<remote, local, argVars, store, rotVars, manifest_blob, extVars, script,
                   cycle, remote_files, hosts, list_of_files, update_ts, fidx,
                   manifest_at_start, run_uploads, run_manifest_writes>>
    /\ UNCHANGED <<runVars, sharedVars>>

\* the file is streamed into blob_path with overwrite=True
PcTransfer ==
    /\ pc = "pc_transfer"
    /\ store' = Put(store, pc_blob_path(version), Blob(remote_files[1].data))
    /\ list_of_files' = <<pc_blob_path(version)>>
    /\ run_uploads' = run_uploads + 1
    /\ pc' = "pc_manifest"
    /\ UNCHANGED <<gateVars, argVars, rotVars, manifest_blob, exit_status, extVars, script,
                   cycle, remote_files, stored_version, hosts, update_ts, fidx, outcome,
                   manifest_at_start, run_manifest_writes>>
    /\ UNCHANGED <<runVars, sharedVars>>

\* r.raise_for_status() raises before upload_blob is called
PcTransferFails ==
    /\ pc = "pc_transfer"
    /\ pc' = "exited"
    /\ exit_status' = 1
    /\ outcome' = "http_error"
    /\ UNCHANGED <<gateVars, argVars, store, rotVars, manifest_blob, extVars, script, cycle,
                   remote_files, stored_version, hosts, list_of_files, update_ts, fidx,
                   manifest_at_start, run_uploads, run_manifest_writes>>
    /\ UNCHANGED <<runVars, sharedVars>>

\* update_manifest(source_id="pathway_commons", version=date, ...)
PcUpdateManifest ==
    /\ pc = "pc_manifest"
    /\ hosts' = << <<"u", "/", "v">> >>
    /\ manifest_blob' = Some(update_manifest(manifest_blob, source_id, version, update_ts,
                                             hosts', list_of_files))
    /\ run_manifest_writes' = run_manifest_writes + 1
    /\ pc' = "pc_rotate"
    /\ UNCHANGED <<gateVars, argVars, store, rotVars, exit_status, extVars, script, cycle,
                   remote_files, stored_version, list_of_files, update_ts, fidx, outcome,
                   manifest_at_start, run_uploads>>
    /\ UNCHANGED <<runVars, sharedVars>>

\* update_latest_folder(source_id="pathway_commons", version=date): the
\* script writes under raw/bronze_layer/, so the listing under
\* raw/pathway_commons/latest/{date} is empty and the call returns at once;
\* the function returns and the script ends
PcRotate ==
    /\ pc = "pc_rotate"
    /\ list_blobs(store, latest_prefix(source_id, version)) = <<>>
    /\ rotFn' = "latest"
    /\ runs' = 1
    /\ store0' = store
    /\ pc' = "exited"
    /\ exit_status' = 0
    /\ outcome' = "completed"
    /\ UNCHANGED <<gateVars, argVars, store, blobs, idx, moved_count, calls, manifest_blob,
                   extVars, script, cycle, remote_files, stored_version, hosts, list_of_files,
                   update_ts, fidx, manifest_at_start, run_uploads, run_manifest_writes>>
    /\ UNCHANGED <<runVars, sharedVars>>

PcNext ==
    \/ RunStart
    \/ PcResolve
    \/ PcGate
    \/ PcTransfer
    \/ PcTransferFails
    \/ PcUpdateManifest
    \/ PcRotate

SpecPc == PcInit /\ [][PcNext]_vars

\* C25: a pathway_commons run whose stored version equals the remote date
\* ends as up to date with nothing transferred and the manifest as it was; a
\* run with no stored version or another stored version downloads the file
\* and writes the manifest with the remote date.
C25_PathwayCommonsGate ==
    (script = "pathway_commons" /\ pc = "exited" /\ outcome \in {"uptodate", "completed"}) =>
        IF stored_version = Some(version)
        THEN /\ outcome = "uptodate"
             /\ run_uploads = 0
             /\ manifest_blob = manifest_at_start
        ELSE /\ outcome = "completed"
             /\ run_uploads = 1
             /\ run_manifest_writes = 1
             /\ extract_version(manifest_blob, source_id) = Some(version)

-----------------------------------------------------------------------------
(* The destination of a decompressed file *)

\* raw paths whose directory or file name holds an archive extension
\* before the last one, and last extensions in several spellings
DestPaths ==
    {RAW \o SL \o dir \o SL \o LATEST \o SL \o <<"1">> \o SL \o stem \o ext :
        dir \in {<<"s">>, <<"s">> \o DOT_GZ, <<"s">> \o DOT_ZIP},
        stem \in {<<"a">>, <<"a">> \o DOT_GZ, <<"a">> \o DOT_ZIP, <<"a", ".", "b">>},
        ext \in {DOT_GZ, DOT_GZ_UPPER, <<".", "G", "z">>, DOT_ZIP, <<".", "Z", "I", "P">>}}

DestInit ==
    /\ HelperIdle
    /\ pc = "dest_call"
    /\ \E p \in DestPaths, d \in {x \in Payloads : x.magic = "gz"} :
           /\ store = Put(<<>>, p, Blob(d))
           /\ locals = [fn |-> "extract", file_path |-> p, handler |-> "none",
                        ok |-> FALSE, dest |-> <<>>]

\* one turn of the loop of extract for file_path: the branch is chosen, the
\* destination computed and the decompressed stream uploaded to it
DestProcess ==
    /\ pc = "dest_call"
    /\ LET r == process_file(store, locals.file_path) IN
           /\ locals' = [locals EXCEPT
                  !.handler = handler_for(locals.file_path, store),
                  !.ok = r.ok,
                  !.dest = IF r.writes = <<>> THEN <<>> ELSE r.writes[1].name]
           /\ store' = PutAll(store, r.writes)
    /\ pc' = "dest_returned"
    /\ UNCHANGED helperRest

DestNext == DestProcess

SpecDest == DestInit /\ [][DestNext]_vars

\* the trailing extension of a path, as many characters as its handler removes
TrailingExtLen(h) == IF h = "gzip" THEN Len(DOT_GZ) ELSE Len(DOT_ZIP)

\* C31: the destination of a gzip-decompressed file is its raw path with
\* the leading raw/ replaced by extracted/ and the trailing extension
\* removed, every other part of the path unchanged.
C31_OnlyTrailingExtensionRemoved ==
    (pc = "dest_returned" /\ locals.ok /\ locals.handler \in {"gzip", "gzip_misnamed"}) =>
        locals.dest = EXTRACTED \o SL
                      \o SubSeq(locals.file_path, Len(RAW \o SL) + 1,
                                Len(locals.file_path) - TrailingExtLen(locals.handler))

-----------------------------------------------------------------------------
(* Claims about the delays of connect_ftp *)

DefaultDelays == <<2, 4, 8, 16, 32>>

\* C32: after the k-th failed attempt connect_ftp sleeps base_delay *
\* 2^(k-1) seconds plus a jitter below one second before anything else: the
\* part without jitter doubles with every attempt and is 2, 4, 8, 16, 32
\* with the defaults, and the next attempt starts only after the sleep.
C32_BackoffDoubles ==
    [][/\ (Len(locals'.attempts) = Len(locals.attempts) + 1
           /\ locals'.attempts[Len(locals'.attempts)] \in TransientErrors) =>
              LET k == Len(locals'.attempts) IN
                  /\ pc' = "cf_sleep"
                  /\ locals'.sleep = locals.base_delay * 2 ^ (k - 1)
                  /\ locals'.jitter \in 0..9
                  /\ k > 1 => locals'.sleep = 2 * locals.sleep
                  /\ locals.base_delay = BASE_DELAY => locals'.sleep = DefaultDelays[k]
       /\ (pc = "cf_sleep" /\ pc' # pc) =>
              /\ pc' = "cf_loop"
              /\ locals'.attempt = locals.attempt + 1
              /\ locals'.attempts = locals.attempts]_vars

C32_Witness ==
    /\ pc = "cf_sleep"
    /\ locals.base_delay = BASE_DELAY
    /\ Len(locals.attempts) = DEFAULT_RETRIES
    /\ locals.sleep = 32
    /\ locals.jitter = 9

-----------------------------------------------------------------------------
(* download_and_upload (api) and stream_to_blob (web): the streamed transfer
   and its digest *)

MaxChunks == 3

\* what iter_content may yield: empty chunks among the data
ChunkValues == {<<>>, <<"x">>, <<"y", "z">>}

RECURSIVE concat(_)
concat(chunks) == IF chunks = <<>> THEN <<>> ELSE Head(chunks) \o concat(Tail(chunks))

\* sha256.hexdigest() of the bytes absorbed so far: an injective stand-in
hexdigest(absorbed) == <<"#">> \o absorbed

\* a faulty variant of the chunk test: every chunk is passed on
passes_All(chunk) == TRUE

\* "if chunk:" in the generator handed to upload_blob
passes(chunk) == chunk # <<>>

DigestBlob == blob_name_for(<<"s">>, <<"1">>, <<"a">>)

DigestInit ==
    /\ HelperIdle
    /\ pc = "dg_call"
    /\ store \in {<<>>, Put(<<>>, DigestBlob, Blob(<<"o">>))}
    /\ \E fn \in {"download_and_upload", "stream_to_blob"},
          chunks \in SeqsUpTo(ChunkValues, MaxChunks) :
           locals = [fn |-> fn, chunks |-> chunks, i |-> 1, sha256 |-> <<>>,
                     handed |-> <<>>, uploaded |-> FALSE, result |-> None, raised |-> "None"]

\* the request is answered: raise_for_status() passes or raises
DigestRequest ==
    /\ pc = "dg_call"
    /\ \/ /\ pc' = "dg_stream"
          /\ UNCHANGED locals
       \/ /\ pc' = "dg_raised"
          /\ locals' = [locals EXCEPT !.raised = "HTTPError"]
    /\ UNCHANGED store
    /\ UNCHANGED helperRest

\* upload_blob pulls the next item of the generator: the generator takes
\* the next chunk of the response, and a chunk that passes the test is
\* absorbed by the digest and then yielded to the upload
DigestChunk ==
    /\ pc = "dg_stream"
    /\ locals.i <= Len(locals.chunks)
    /\ LET chunk == locals.chunks[locals.i] IN
           locals' = [locals EXCEPT
               !.i = @ + 1,
               !.sha256 = IF passes(chunk) THEN @ \o chunk ELSE @,
               !.handed = IF passes(chunk) THEN Append(@, chunk) ELSE @]
    /\ UNCHANGED <<pc, store>>
    /\ UNCHANGED helperRest

\* the response breaks while it is streamed: the exception leaves the
\* function; the destination is as it was or holds a part of the object
DigestBreaks ==
    /\ pc = "dg_stream"
    /\ locals.i <= Len(locals.chunks)
    /\ \/ UNCHANGED store
       \/ store' = Put(store, DigestBlob, Blob(Incomplete))
    /\ locals' = [locals EXCEPT !.raised = "ChunkedEncodingError"]
    /\ pc' = "dg_raised"
    /\ UNCHANGED helperRest

\* the generator is exhausted: upload_blob commits what it was handed,
\* overwrite=True, and returns
DigestUploaded ==
    /\ pc = "dg_stream"
    /\ locals.i > Len(locals.chunks)
    /\ store' = Put(store, DigestBlob, Blob(concat(locals.handed)))
    /\ locals' = [locals EXCEPT !.uploaded = TRUE]
    /\ pc' = "dg_uploaded"
    /\ UNCHANGED helperRest

\* return sha256.hexdigest()
DigestReturn ==
    /\ pc = "dg_uploaded"
    /\ locals' = [locals EXCEPT !.result = Some(hexdigest(locals.sha256))]
    /\ pc' = "dg_returned"
    /\ UNCHANGED store
    /\ UNCHANGED helperRest

DigestNext ==
    \/ DigestRequest
    \/ DigestChunk
    \/ DigestBreaks
    \/ DigestUploaded
    \/ DigestReturn

SpecDigest == DigestInit /\ [][DigestNext]_vars

NonEmpty(chunk) == chunk # <<>>

\* C33: the digest absorbs exactly the non-empty chunks handed to the
\* upload, in their order and as they are handed over, it is returned only
\* after the upload has completed, and it is the digest of what the
\* function streamed, with no read of the container in between.
C33_DigestOfWhatWasUploaded ==
    /\ [](locals.sha256 = concat(locals.handed))
    /\ [](locals.handed = SelectSeq(SubSeq(locals.chunks, 1, locals.i - 1), NonEmpty))
    /\ [](locals.result.some =>
              /\ locals.uploaded
              /\ pc = "dg_returned"
              /\ locals.result.v = hexdigest(concat(SelectSeq(locals.chunks, NonEmpty)))
              /\ store[DigestBlob].data = concat(locals.handed))
    /\ [][locals'.sha256 # locals.sha256 =>
              /\ Len(locals'.handed) = Len(locals.handed) + 1
              /\ locals'.sha256 = locals.sha256 \o locals'.handed[Len(locals'.handed)]
              /\ store' = store]_vars
    /\ [][locals'.result # locals.result => (locals.uploaded /\ store' = store)]_vars

C33_Witness ==
    /\ pc = "dg_returned"
    /\ locals.fn = "stream_to_blob"
    /\ Len(locals.chunks) = MaxChunks
    /\ Len(locals.handed) = 2
    /\ locals.chunks[2] = <<>>
    /\ locals.result = Some(<<"#", "y", "z", "x">>)

-----------------------------------------------------------------------------
(* Claims about what extract writes and when it writes nothing *)

RECURSIVE WrittenNames(_)
WrittenNames(hs) ==
    IF hs = <<>> THEN <<>> ELSE Names(Head(hs).writes) \o WrittenNames(Tail(hs))

\* C34: the manifest a successful extract writes is the one it read, with
\* extracted = true and extracted_list_of_files added to the entry of the
\* source: the four fields of the entry and the entries of the other
\* sources are as read, and extracted_list_of_files holds the destinations
\* in the order the files were processed.
C34_ExtractWritesOnlyItsKeys ==
    ext_writes > 0 =>
        LET before == load_manifest(manifest_at_ext)
            after == load_manifest(manifest_blob)
            eb == dict_get(before, source_id)
            ea == dict_get(after, source_id)
        IN  /\ dict_keys(after) = dict_keys(before)
            /\ \A k \in dict_keys(before) \ {source_id} :
                   SameValue(dict_get(after, k), dict_get(before, k))
            /\ ea.t = "dict"
            /\ dict_keys(ea) = dict_keys(eb) \cup {K_extracted, K_extracted_list_of_files}
            /\ \A k \in dict_keys(eb) \ {K_extracted, K_extracted_list_of_files} :
                   SameValue(dict_get(ea, k), dict_get(eb, k))
            /\ SameValue(dict_get(ea, K_extracted), BoolV(TRUE))
            /\ SameValue(dict_get(ea, K_extracted_list_of_files),
                         StrList(WrittenNames(handled)))
            /\ [i \in 1..Len(handled) |-> handled[i].path] = Strs(dict_get(eb, K_list_of_files))

C34_Witness ==
    /\ ext_writes > 0
    /\ pc = "ext_returned"
    /\ Len(handled) = 2
    /\ handled[1].handler = "zip"
    /\ Len(all_extracted) > 2
    /\ OtherSource \in dict_keys(load_manifest(manifest_blob))

\* the manifest has no entry for the source, or the entry has no
\* list_of_files or an empty one
NothingListed(mb) ==
    LET e == dict_get(load_manifest(mb), source_id)
    IN  \/ e.t = "none"
        \/ e.t = "dict" /\ dict_get(e, K_list_of_files).t = "none"
        \/ e.t = "dict" /\ dict_get(e, K_list_of_files).t = "list"
                        /\ dict_get(e, K_list_of_files).v = <<>>

\* C35: with no entry for the source, or an entry whose list_of_files is
\* missing or empty, extract writes no object and no manifest and returns
\* without ending the process.
C35_NothingListedNothingDone ==
    [][(pc = "ext_call" /\ NothingListed(manifest_blob)) =>
           /\ pc' = "ext_returned"
           /\ store' = store
           /\ manifest_blob' = manifest_blob
           /\ exit_status' = -1
           /\ ext_writes' = 0
           /\ all_extracted' = <<>>]_vars

C35_Witness ==
    /\ pc = "ext_returned"
    /\ manifest_blob = ManifestWithoutList
    /\ ext_writes = 0
    /\ store # <<>>

-----------------------------------------------------------------------------
(* Claims about a web run that finds no file *)

\* C36: a web run that passed the gate and found no matching link ends
\* with no manifest write, no rotation and no extraction: the stored
\* version is the one the run read, and the gate passes again for the same
\* remote version.
C36_NoFilesLeavesVersion ==
    (pc = "exited" /\ outcome = "nofiles") =>
        /\ script = "web"
        /\ newer
        /\ run_uploads = 0
        /\ run_manifest_writes = 0
        /\ manifest_blob = manifest_at_start
        /\ rotFn = "none" /\ runs = 0 /\ calls = {}
        /\ manifest_at_ext = None /\ handled = <<>> /\ ext_writes = 0
        /\ extract_version(manifest_blob, source_id) = stored_version
        /\ is_newer_version(Some(version), extract_version(manifest_blob, source_id))

C36_Witness ==
    /\ pc = "exited"
    /\ outcome = "nofiles"
    /\ cycle = 2
    /\ stored_version = Some(<<"1">>)
    /\ version = <<"1", "2">>
    /\ prev_run.version = version
    /\ prev_run.manifest_writes = 0

-----------------------------------------------------------------------------
(* web.matches_rules: does a link belong to the files of the page *)

MaxTokens == 2

MODE_AND == <<"a", "n", "d">>
MODE_OR == <<"o", "r">>

\* "x in s" for strings
contains(s, x) == find(s, x) # 0

\* Path(urlparse(url).path).name: the last segment of the path
url_filename(url) ==
    LET parts == split(url, "/") IN parts[Len(parts)]

\* any(p(x) for x in xs)
any(xs, p(_)) == \E i \in 1..Len(xs) : p(xs[i])

\* matches_rules(url, rules): "True", "False", or "ValueError" when it raises
matches_rules(url, rules) ==
    LET filename == lower(url_filename(url))
        tokens == [i \in 1..Len(rules.name_contains.v) |-> lower(rules.name_contains.v[i])]
        mode == IF rules.name_contains_mode.some THEN lower(rules.name_contains_mode.v)
                ELSE MODE_OR
        in_filename(token) == contains(filename, token)
        in_url(token) == contains(url, token)
        has_ext(ext) == endswith(filename, <<".">> \o ext)
    IN  IF filename = <<>> THEN "False"
        ELSE IF rules.extensions.some /\ ~any(rules.extensions.v, has_ext) THEN "False"
        ELSE IF ~rules.name_contains.some THEN "True"
        ELSE IF mode = MODE_AND
            THEN IF ~any(tokens, in_filename) /\ ~any(tokens, in_url) THEN "False" ELSE "True"
        ELSE IF mode = MODE_OR
            THEN IF ~any(tokens, in_filename) /\ ~any(tokens, in_url) THEN "False" ELSE "True"
        ELSE "ValueError"

\* links of a page: files with one or both of the tokens in their name, a
\* token in the directory only, a name in upper case, no file name
RuleUrls ==
    { <<"u", "/", "a", ".", "g", "z">>, <<"u", "/", "a", "b", ".", "g", "z">>, <<"u", "/", "b", ".", "z", "i", "p">>, <<"a", "/", "b", ".", "g", "z">>, <<"u", "/", "A", ".", "G", "Z">>, <<"u", "/", "c", ".", "g", "z">>, <<"u", "/">> }

RuleTokens == {<<"a">>, <<"b">>}

RuleSets ==
    {[extensions |-> e, name_contains |-> n, name_contains_mode |-> m] :
        e \in {None, [some |-> TRUE, v |-> << <<"g", "z">> >>]},
        n \in {None} \cup {[some |-> TRUE, v |-> q] : q \in SeqsUpTo(RuleTokens, MaxTokens)},
        m \in {None, Some(MODE_AND), Some(MODE_OR), Some(<<"x", "o", "r">>)}}

RulesInit ==
    /\ HelperIdle
    /\ store = <<>>
    /\ pc = "mr_call"
    /\ \E url \in RuleUrls, rules \in RuleSets :
           locals = [fn |-> "matches_rules", url |-> url, rules |-> rules, result |-> "none"]

RulesCall ==
    /\ pc = "mr_call"
    /\ locals' = [locals EXCEPT !.result = matches_rules(locals.url, locals.rules)]
    /\ pc' = IF locals'.result = "ValueError" THEN "mr_raised" ELSE "mr_returned"
    /\ UNCHANGED store
    /\ UNCHANGED helperRest

RulesNext == RulesCall

SpecRules == RulesInit /\ [][RulesNext]_vars

\* the token occurs in the file name or in the URL
Occurs(token) ==
    \/ contains(lower(url_filename(locals.url)), lower(token))
    \/ contains(locals.url, lower(token))

\* the call reaches the test of name_contains: there is a file name, the
\* extension is allowed, and tokens are configured
ReachesTokens ==
    /\ pc # "mr_call"
    /\ url_filename(locals.url) # <<>>
    /\ locals.rules.extensions.some =>
           \E i \in 1..Len(locals.rules.extensions.v) :
               endswith(lower(url_filename(locals.url)), <<".">> \o locals.rules.extensions.v[i])
    /\ locals.rules.name_contains.some

\* C37: with mode "and" a URL matches only if every token occurs in the
\* file name or the URL; with mode "or", the default, it matches if at
\* least one token occurs; any other mode raises.
C37_ModeAndNeedsEveryToken ==
    ReachesTokens =>
        LET tokens == locals.rules.name_contains.v
            mode == locals.rules.name_contains_mode
        IN  /\ (mode = Some(MODE_AND) /\ locals.result = "True") =>
                   \A i \in 1..Len(tokens) : Occurs(tokens[i])
            /\ (mode \in {None, Some(MODE_OR)}) =>
                   (locals.result = "True" <=> \E i \in 1..Len(tokens) : Occurs(tokens[i]))
            /\ (mode \notin {None, Some(MODE_AND), Some(MODE_OR)}) =>
                   locals.result = "ValueError"

-----------------------------------------------------------------------------
(* The command line of a task and the entry point of the script it starts *)

API == <<"a", "p", "i">>
BIOPORTAL == <<"b", "i", "o", "p", "o", "r", "t", "a", "l">>

SHORT_ID == <<"-", "i", "d">>
LONG_ID == <<"-", "-", "i", "d">>
SRC_SCRIPTS == <<"s", "r", "c", "/", "s", "c", "r", "i", "p", "t", "s", "/">>

MaxIdLen == 2

\* the option strings the parser of a group's script registers with
\* add_argument(..., required=True); a custom script builds no parser
option_strings(script_name) ==
    CASE script_name \in {API, FTP, WEB} -> {LONG_ID}
      [] script_name \in {OLS, BIOPORTAL} -> {SHORT_ID, LONG_ID}
      [] OTHER -> {}

\* ArgumentParser matching an argument against the option strings: the
\* string itself, or an abbreviation, which is a prefix of an option string
\* with the same number of leading dashes
names_option(arg, opts) ==
    \/ arg \in opts
    \/ /\ Len(arg) > 1
       /\ arg[1] = "-"
       /\ \E o \in opts : startswith(o, arg) /\ (arg[2] = "-" <=> o[2] = "-")

\* parse_args() over sys.argv[1:] for a parser with the one required
\* option: the namespace, or exit status 2 after the usage message
parse_args(opts, argv) ==
    IF Len(argv) = 2 /\ names_option(argv[1], opts) /\ argv[2] # <<>> /\ argv[2][1] # "-"
    THEN [ok |-> TRUE, id |-> Some(argv[2]), exit |-> 0]
    ELSE [ok |-> FALSE, id |-> None, exit |-> 2]

\* what the script does with its arguments before anything else
entry_point(script_name, argv) ==
    IF option_strings(script_name) = {}
    THEN [ok |-> TRUE, id |-> None, exit |-> 0]
    ELSE parse_args(option_strings(script_name), argv)

\* the module a command line names: "src/scripts/{name}.py"
script_of(path) == SubSeq(path, Len(SRC_SCRIPTS) + 1, Len(path) - Len(DOT_PY))

EntryGroups == {API, FTP, WEB, OLS, BIOPORTAL, CUSTOM}
EntryIds == StringsUpTo({"a", "d", "i"}, MaxIdLen) \ {<<>>}

EntryInit ==
    /\ HelperIdle
    /\ store = <<>>
    /\ pc = "ep_build"
    /\ \E g \in EntryGroups, sid \in EntryIds :
           locals = [fn |-> "build_task", group |-> g, source_id |-> sid,
                     command_line |-> <<>>, script_name |-> <<>>, argv |-> <<>>,
                     parsed |-> [ok |-> FALSE, id |-> None, exit |-> -1]]

\* the job manager builds the command line of the task
EntryBuild ==
    /\ pc = "ep_build"
    /\ locals' = [locals EXCEPT
           !.command_line = build_command_line(locals.group, locals.source_id)]
    /\ pc' = "ep_start"
    /\ UNCHANGED store
    /\ UNCHANGED helperRest

\* the task runs the command line: python is started on the script with
\* the remaining words as sys.argv[1:]
EntryStart ==
    /\ pc = "ep_start"
    /\ LET words == split(locals.command_line, " ") IN
           locals' = [locals EXCEPT
               !.fn = "__main__",
               !.script_name = script_of(words[2]),
               !.argv = SubSeq(words, 3, Len(words))]
    /\ pc' = "ep_main"
    /\ UNCHANGED store
    /\ UNCHANGED helperRest

\* the "__main__" block of the script reads its arguments
EntryMain ==
    /\ pc = "ep_main"
    /\ locals' = [locals EXCEPT !.parsed = entry_point(locals.script_name, locals.argv)]
    /\ pc' = IF locals'.parsed.ok THEN "ep_running" ELSE "exited"
    /\ exit_status' = IF locals'.parsed.ok THEN exit_status ELSE locals'.parsed.exit
    /\ UNCHANGED <<gateVars, argVars, store, rotVars, manifest_blob, extVars, flowVars,
                   marker, prev_run, detected_versions, sharedVars>>

EntryNext == EntryBuild \/ EntryStart \/ EntryMain

SpecEntry == EntryInit /\ [][EntryNext]_vars

\* C38: the command line built for a source of a group is accepted by the
\* script of the group and selects the source, and the command line built
\* for a custom source starts the script of the source with no argument.
C38_CommandLineAccepted ==
    pc \in {"ep_running", "exited"} =>
        IF locals.group = CUSTOM
        THEN /\ locals.script_name = locals.source_id
             /\ locals.argv = <<>>
             /\ locals.parsed.ok
        ELSE /\ locals.script_name = locals.group
             /\ locals.parsed.ok
             /\ locals.parsed.id = Some(locals.source_id)

=============================================================================
